---- MODULE Spec2Model ----
(***************************************************************************)
(* Model of the gazette acquisition and structured-extraction pipeline of  *)
(* diario_oficial_tcmpa: DataDiario / DiarioOficial (documents/diario.py), *)
(* DocumentoBase (documents/document.py), Acordao (documents/acordao.py),  *)
(* Resolucao (documents/resolucao.py), the query endpoints (api.py,        *)
(* flask_version.py) and DiarioRange (util/download_diario_range.py).      *)
(* The known-keys vocabulary of utils/markdown_helper.py is modelled with   *)
(* two extractors that share one file.                                     *)
(*                                                                         *)
(* Texts are sequences of tokens.  A token is a maximal run of characters  *)
(* of one regex class (a word of \w characters, one whitespace character,  *)
(* one punctuation character, a dotted number), so that every regular      *)
(* expression of the source is evaluated token by token.                   *)
(***************************************************************************)
EXTENDS Integers, Sequences, FiniteSets, TLC

VARIABLES
    \* DataDiario
    hoje,               \* datetime.today() as <<ano, mes, dia>>
    data_in,            \* arguments of the last DataDiario(...) call
    data_out,           \* its outcome
    \* DiarioOficial
    fs,                 \* the file system: path -> file
    diario,             \* the DiarioOficial instance last constructed
    ctor,               \* outcome of the last DiarioOficial(...) call
    n_ctor,             \* number of DiarioOficial(...) calls so far
    opens,              \* pymupdf.open calls made on behalf of `diario`
    returns,            \* texts returned by extract_text on `diario`
    pdf_requests,       \* per cache root: GET requests for the PDF
    downloads_ok,       \* per cache root: download_pdf calls that returned True
    requests_after_ok,  \* per cache root: PDF requests issued after one returned True
    disponivel,         \* last _pdf_disponivel call: the file seen and the answer
    \* documents
    texto,              \* the text handed to the segmenter / extractor / builder
    secoes,             \* result of the last get_sections / split_sections call
    campos,             \* result of the last _get_keys + _extract_key_content call
    documentos,         \* result of the last Acordao._extract_data call
    n_extract,          \* number of _extract_data calls so far
    \* persistence
    arquivos,           \* files written by _cache_entry: path -> content
    indice,             \* entries added by _tokenize_and_store, per collection
    gravados,           \* the writes requested so far
    ultima,             \* the last write: its request and whether it changed a store
    \* callers
    chamada,            \* the last DiarioOficial(...) call: arguments, answers, requests
    extracao,           \* the last extract_text call on `diario`: file read, outcome
    http,               \* the last request to a query endpoint and its answer
    lote,               \* the last month run of DiarioRange
    vocabulario,        \* the known-keys file and the extractors that share it
    limpeza,            \* the last clean_text call: its argument and its result
    baixa               \* the last download_pdf call made on `diario` by a caller

dateVars == <<hoje, data_in, data_out>>
pipeVars == <<fs, diario, ctor, n_ctor, opens, returns, pdf_requests,
              downloads_ok, requests_after_ok, disponivel>>
docVars == <<texto, secoes, campos, documentos, n_extract>>
storeVars == <<arquivos, indice, gravados, ultima>>
auxVars == <<chamada, extracao, http, lote, vocabulario, limpeza, baixa>>
vars == <<dateVars, pipeVars, docVars, storeVars, auxVars>>

----------------------------------------------------------------------------
(* Bounds *)

MaxPaginas == 2
MaxConstrucoes == 2
MaxChamadas == 3
MaxPecas == 3
MaxSecoes == 2
MaxExtracoes == 2
MaxEscritas == 2

\* clean_raw[:100]
TamanhoAmostra == 100

----------------------------------------------------------------------------
(* DataDiario: documents/diario.py 17-55 *)

IsLeap(ano) == (ano % 4 = 0 /\ ano % 100 # 0) \/ ano % 400 = 0

DaysInMonth(ano, mes) ==
    IF mes = 2 THEN (IF IsLeap(ano) THEN 29 ELSE 28)
    ELSE IF mes \in {4, 6, 9, 11} THEN 30 ELSE 31

\* datetime(ano, mes, dia) does not raise ValueError
DatetimeOk(ano, mes, dia) ==
    /\ ano >= 1 /\ ano <= 9999
    /\ mes >= 1 /\ mes <= 12
    /\ dia >= 1 /\ dia <= DaysInMonth(ano, mes)

\* datetime(ano, mes, dia) > datetime.today(): the left side is midnight of its
\* day and today() carries the time of day, so the comparison is by calendar day
DateAfter(ano, mes, dia, h) ==
    \/ ano > h[1]
    \/ ano = h[1] /\ mes > h[2]
    \/ ano = h[1] /\ mes = h[2] /\ dia > h[3]

\* validar_numeros: a str argument must be all digits
validar_numeros(forma) == IF forma = "nondigit" THEN "ValueError" ELSE "ok"

\* validar_data_futura: the exception class raised, or "ok"
validar_data_futura(dia, mes, ano, h) ==
    IF ~DatetimeOk(ano, mes, dia) THEN "DiarioNaoExiste"
    ELSE IF DateAfter(ano, mes, dia, h) THEN "DiarioNaoExiste"
    ELSE "ok"

\* DataDiario(dia=..., mes=..., ano=...): field validators, then the model validator
DataDiario(dia, mes, ano, forma, h) ==
    IF validar_numeros(forma) # "ok" THEN "ValidationError"
    ELSE validar_data_futura(dia, mes, ano, h)

HojeSet == {<<2024, 2, 28>>, <<2024, 2, 29>>, <<2024, 12, 31>>, <<2025, 1, 1>>}
Dias == 0 .. 32
Meses == 0 .. 13
Anos == {0} \cup (2023 .. 2026)
Formas == {"int", "digits", "nondigit"}

NoData == [dia |-> 0, mes |-> 0, ano |-> 0, forma |-> "none"]

DateInit ==
    /\ hoje \in HojeSet
    /\ data_in = NoData
    /\ data_out = "none"

\* DataDiario(dia=dia, mes=mes, ano=ano), called once on a fresh process: the
\* outcome depends on the arguments and the clock only
ConstructDataDiario ==
    /\ data_out = "none"
    /\ \E dia \in Dias, mes \in Meses, ano \in Anos, forma \in Formas :
        /\ data_in' = [dia |-> dia, mes |-> mes, ano |-> ano, forma |-> forma]
        /\ data_out' = DataDiario(dia, mes, ano, forma, hoje)
        /\ UNCHANGED <<hoje, pipeVars, docVars, storeVars, auxVars>>

NoChamada == [feita |-> FALSE]

NoExtracao == [feita |-> FALSE]

NoHttp == [feita |-> FALSE]

NoLote == [feito |-> FALSE]

NoLimpeza == [feito |-> FALSE]

NoBaixa == [feita |-> FALSE]

\* the extractor processes that share one known-keys file
Processos == {"p", "q"}

\* no known-keys file yet, no extractor has loaded it
NoVocabulario ==
    [arquivo |-> [existe |-> FALSE, chaves |-> {}],
     persistidas |-> {},
     known_keys |-> [p \in Processos |-> {}],
     new_keys_found |-> [p \in Processos |-> {}],
     carregou |-> [p \in Processos |-> FALSE],
     needs_review |-> FALSE]

AuxIdle ==
    /\ chamada = NoChamada
    /\ extracao = NoExtracao
    /\ http = NoHttp
    /\ lote = NoLote
    /\ vocabulario = NoVocabulario
    /\ limpeza = NoLimpeza
    /\ baixa = NoBaixa

----------------------------------------------------------------------------
(* The file system and the PDFs: documents/diario.py 314-456 *)

\* What page.get_text() gives for a page: nothing, body text, body text that
\* carries the issue serial number, or an exception
PaginasBase == {"vazia", "texto", "erro"}
PaginasNumero == {"num1", "num2"}

\* PDFs of up to MaxPaginas pages; page 0 is the cover page, which has text
Corpos(n) == [1 .. n -> PaginasBase]
PdfDocs == {<<>>} \cup UNION {{<<"capa">> \o c : c \in Corpos(n)} : n \in 0 .. MaxPaginas - 1}

\* issues whose pages carry the serial number: on the first page after the
\* cover only, on two pages with different matches, on a later page only
PdfsNumerados ==
    {<<"capa", "num1", "texto">>, <<"capa", "num1", "num2">>, <<"capa", "texto", "num1">>}

Bytes0 == [tipo |-> "bytes0", paginas |-> <<>>]     \* no bytes at all
Parcial == [tipo |-> "parcial", paginas |-> <<>>]   \* some bytes, not a whole PDF
Pdf(ps) == [tipo |-> "pdf", paginas |-> ps]
Conteudos == {Bytes0, Parcial} \cup {Pdf(ps) : ps \in PdfDocs \cup PdfsNumerados}

Ausente == [tipo |-> "ausente", legivel |-> FALSE, conteudo |-> Bytes0]
Diretorio == [tipo |-> "diretorio", legivel |-> TRUE, conteudo |-> Bytes0]
Arquivo(c, r) == [tipo |-> "arquivo", legivel |-> r, conteudo |-> c]
Arquivos == {Ausente} \cup {Arquivo(c, r) : c \in Conteudos, r \in BOOLEAN}

UrlPdf == "https://tcm.ioepa.com.br/diario.pdf"
DirPadrao == "diarios/2024/12"
LocalPadrao == "diarios/2024/12/diario.pdf"
DirCustom == "downloads"
\* a path of the caller's choice, in a directory of its own
LocalCopia == "copias/diario.pdf"
Caminhos == {"", LocalPadrao, DirCustom, LocalCopia}
Raizes == {DirPadrao, DirCustom}

\* open(pdf_path, "rb"): "ok" or the OSError raised
AbrirLeitura(file) ==
    IF file.tipo = "ausente" THEN "FileNotFoundError"
    ELSE IF file.tipo = "diretorio" THEN "IsADirectoryError"
    ELSE IF ~file.legivel THEN "PermissionError"
    ELSE "ok"

\* _pdf_disponivel without the check for empty content
pdf_disponivel_sem_vazio(f, pdf_path) ==
    IF f[pdf_path].tipo # "arquivo" THEN "False"
    ELSE IF AbrirLeitura(f[pdf_path]) = "ok" THEN "True"
    ELSE "False"

\* _pdf_disponivel: "True", "False" or the exception that escapes.
\* os.path.isfile, then open and read; FileNotFoundError, PermissionError and
\* IOError (every OSError) are caught and answer False
pdf_disponivel(f, pdf_path) ==
    IF f[pdf_path].tipo # "arquivo" THEN "False"
    ELSE LET r == AbrirLeitura(f[pdf_path]) IN
         IF r = "ok"
         THEN (IF f[pdf_path].conteudo.tipo = "bytes0" THEN "False" ELSE "True")
         ELSE IF r \in {"FileNotFoundError", "PermissionError", "IsADirectoryError"}
         THEN "False"
         ELSE r

\* _obter_numero_diario on the text of one page
obter_numero_diario(pagina) ==
    IF pagina = "num1" THEN "1.234"
    ELSE IF pagina = "num2" THEN "1.235"
    ELSE ""

\* page.get_text() followed by clean_text: the text appended for the page
TextoPagina(pagina) == IF pagina = "vazia" THEN "" ELSE pagina

RECURSIVE PrimeiroErro(_, _)
PrimeiroErro(ps, i) ==
    IF i > Len(ps) THEN 0
    ELSE IF ps[i] = "erro" THEN i
    ELSE PrimeiroErro(ps, i + 1)

\* the memoization test of extract_text (line 425)
TextoJaExtraido(d) == d.texto_original # <<>>

\* the fields of a DiarioOficial before __init__ fills them (lines 87-96)
NoDiario == [diario_valido |-> FALSE, internet_path |-> "", pdf_file |-> "",
             download_dir |-> "", local_path |-> "",
             texto_original |-> <<>>, numero_diario |-> ""]

\* the try body of extract_text (lines 429-453): the text returned, the
\* instance afterwards, whether pymupdf.open was called, the file it was
\* called on and the exception that leaves the body, "" for none
corpo_extract_text(d, f, pdf_path) ==
    LET file == f[pdf_path] IN
    IF file.tipo # "arquivo" \/ ~file.legivel \/ file.conteudo.tipo # "pdf"
    THEN [ret |-> <<>>, d |-> d, abriu |-> 1, leu |-> file, exc |-> "FileDataError"]
    ELSE
        LET ps == file.conteudo.paginas
            erro == PrimeiroErro(ps, 2)
            ultima_pagina == IF erro = 0 THEN Len(ps) ELSE erro - 1
            numero == IF ultima_pagina >= 2 THEN obter_numero_diario(ps[ultima_pagina])
                      ELSE d.numero_diario
            corpo == IF Len(ps) >= 2 THEN SubSeq(ps, 2, Len(ps)) ELSE <<>>
            texto_paginas == SelectSeq(corpo, LAMBDA pg : TextoPagina(pg) # "")
        IN  IF erro # 0
            THEN [ret |-> <<>>,
                  d |-> [d EXCEPT !.numero_diario = numero],
                  abriu |-> 1, leu |-> file, exc |-> "RuntimeError"]
            ELSE [ret |-> texto_paginas,
                  d |-> [d EXCEPT !.numero_diario = numero,
                                  !.texto_original = texto_paginas],
                  abriu |-> 1, leu |-> file, exc |-> ""]

\* extract_text without its except clause: what leaves the body leaves the call
extract_text_sem_try(d, f, pdf_path) ==
    IF TextoJaExtraido(d)
    THEN [ret |-> d.texto_original, d |-> d, abriu |-> 0, leu |-> Ausente,
          exc |-> "", falhou |-> FALSE]
    ELSE [falhou |-> corpo_extract_text(d, f, pdf_path).exc # ""]
            @@ corpo_extract_text(d, f, pdf_path)

\* extract_text(pdf_path): the memoization test, the try body and the except
\* clause, which answers "" for every exception (lines 454-456); `falhou`
\* tells that the clause ran
extract_text(d, f, pdf_path) ==
    IF TextoJaExtraido(d)
    THEN [ret |-> d.texto_original, d |-> d, abriu |-> 0, leu |-> Ausente,
          exc |-> "", falhou |-> FALSE]
    ELSE [falhou |-> corpo_extract_text(d, f, pdf_path).exc # "",
          exc |-> "", ret |-> IF corpo_extract_text(d, f, pdf_path).exc # "" THEN <<>>
                              ELSE corpo_extract_text(d, f, pdf_path).ret]
            @@ corpo_extract_text(d, f, pdf_path)

\* no extract_text call
SemExtracao == [ret |-> <<>>, d |-> NoDiario, abriu |-> 0, leu |-> Ausente,
                exc |-> "", falhou |-> FALSE]

\* What the network and the disk do to one download: the GET fails, or it
\* answers 200 with a body and the write succeeds, cannot open the file, or
\* breaks off after opening it
Resposta(ok, c) == [ok |-> ok, corpo |-> c]
Transferencias ==
    {<<Resposta(FALSE, Bytes0), "ok">>}
    \cup {<<Resposta(TRUE, c), "ok">> : c \in Conteudos}
    \cup {<<Resposta(TRUE, Pdf(<<"capa">>)), w>> : w \in {"open_error", "write_error"}}

\* the path download_pdf opens for writing (line 368)
CaminhoEscrita(d, local_path) == d.local_path

\* download_pdf(internet_path, local_path): the answer ("True", "False" or
\* the exception raised), the file system afterwards, whether the GET was sent
download_pdf(d, f, internet_path, local_path, resp, wr) ==
    IF ~d.diario_valido \/ internet_path = ""
    THEN [ret |-> "DiarioNaoExiste", fs |-> f, pediu |-> 0]
    ELSE IF ~resp.ok
    THEN [ret |-> "False", fs |-> f, pediu |-> 1]
    ELSE
        LET alvo == CaminhoEscrita(d, IF local_path = "" THEN d.local_path
                                      ELSE local_path)
        IN  IF \/ alvo = ""
               \/ f[alvo].tipo = "diretorio"
               \/ f[alvo].tipo = "arquivo" /\ ~f[alvo].legivel
               \/ wr = "open_error"
            THEN [ret |-> "False", fs |-> f, pediu |-> 1]
            ELSE IF wr = "write_error"
            THEN [ret |-> "False",
                  fs |-> [f EXCEPT ![alvo] = Arquivo(Parcial, TRUE)],
                  pediu |-> 1]
            ELSE [ret |-> "True",
                  fs |-> [f EXCEPT ![alvo] = Arquivo(resp.corpo, TRUE)],
                  pediu |-> 1]

----------------------------------------------------------------------------
(* DiarioOficial.__init__: documents/diario.py 102-203 *)

HojePipeline == <<2024, 12, 10>>
DatasValidas == {<<10, 12, 2024>>, <<0, 12, 2024>>}
DatasInvalidas == {<<31, 11, 2024>>, <<11, 12, 2024>>}
IndicesFalhos == {"req_error", "no_div", "no_link"}
SemTransferencia == <<Resposta(FALSE, Bytes0), "ok">>

\* The calls of DiarioOficial(...) and what the world answers during each: an
\* argument or answer the run never reads is given one value only
Chamadas ==
    {<<dt, "", "link", SemTransferencia>> : dt \in DatasInvalidas}
    \cup {<<dt, "", idx, SemTransferencia>> :
              dt \in DatasValidas, idx \in IndicesFalhos}
    \cup {<<dt, "custom_invalido", "link", SemTransferencia>> : dt \in DatasValidas}
    \cup {<<dt, "", "link", tr>> : dt \in DatasValidas, tr \in Transferencias}
    \* with a directory given the write path is "": the body is never written
    \cup {<<dt, "custom_valido", "link", <<Resposta(ok, Pdf(<<"capa">>)), "ok">>>> :
              dt \in DatasValidas, ok \in BOOLEAN}

NoCheck == [feito |-> FALSE, arquivo |-> Ausente, resposta |-> "False"]

\* `dia if dia else datetime.today().day` (lines 125-127)
Efetivo(x, padrao) == IF x = 0 THEN padrao ELSE x

\* _diario_existe that asks for the index page again after a failed request
diario_existe_com_nova_tentativa(idx) ==
    IF idx = "link"
    THEN [valido |-> TRUE, internet_path |-> UrlPdf, pdf_file |-> "diario.pdf",
          pedidos |-> 1]
    ELSE [valido |-> FALSE, internet_path |-> "", pdf_file |-> "",
          pedidos |-> IF idx = "req_error" THEN 2 ELSE 1]

\* _diario_existe: the validity flag, the address found and the number of
\* requests for the index page; a failed request, a page without the
\* container and a page without a link all answer False
diario_existe(idx) ==
    IF idx = "link"
    THEN [valido |-> TRUE, internet_path |-> UrlPdf, pdf_file |-> "diario.pdf",
          pedidos |-> 1]
    ELSE [valido |-> FALSE, internet_path |-> "", pdf_file |-> "", pedidos |-> 1]

\* the custom-directory branch (lines 153-175): the whole branch sits in a
\* try whose except clause logs and falls back to the default directory
RamoCustom(d0, f, dir, resp, wr) ==
    IF dir = "custom_invalido"
    THEN [ctor |-> "ok", d |-> [d0 EXCEPT !.download_dir = DirPadrao], fs |-> f,
          abriu |-> 0, rets |-> <<>>, pediu |-> 0, baixou |-> 0,
          raiz |-> DirCustom, check |-> NoCheck, ex |-> SemExtracao]
    ELSE
        LET d1 == [d0 EXCEPT !.download_dir = DirCustom]
            dl == download_pdf(d1, f, d1.internet_path, DirCustom, resp, wr)
            ex == extract_text(d1, dl.fs, d1.local_path)
        IN  IF dl.ret = "True"
            THEN [ctor |-> "ok",
                  d |-> IF ex.exc = "" THEN ex.d
                        ELSE [ex.d EXCEPT !.download_dir = DirPadrao],
                  fs |-> dl.fs,
                  abriu |-> ex.abriu, rets |-> IF ex.exc = "" THEN <<ex.ret>> ELSE <<>>,
                  pediu |-> dl.pediu,
                  baixou |-> 1, raiz |-> DirCustom, check |-> NoCheck, ex |-> ex]
            ELSE IF dl.ret = "False"
            THEN [ctor |-> "ok", d |-> d1, fs |-> dl.fs,
                  abriu |-> 0, rets |-> <<>>, pediu |-> dl.pediu,
                  baixou |-> 0, raiz |-> DirCustom, check |-> NoCheck,
                  ex |-> SemExtracao]
            ELSE [ctor |-> "ok", d |-> [d1 EXCEPT !.download_dir = DirPadrao],
                  fs |-> dl.fs, abriu |-> 0, rets |-> <<>>, pediu |-> dl.pediu,
                  baixou |-> 0, raiz |-> DirCustom, check |-> NoCheck,
                  ex |-> SemExtracao]

\* the constructor once extract_text was called outside a try (lines 183, 192):
\* an exception that leaves extract_text leaves the constructor
Extraido(ex, f, pediu, baixou, chk) ==
    [ctor |-> IF ex.exc = "" THEN "ok" ELSE ex.exc,
     d |-> IF ex.exc = "" THEN ex.d ELSE NoDiario, fs |-> f,
     abriu |-> ex.abriu, rets |-> IF ex.exc = "" THEN <<ex.ret>> ELSE <<>>,
     pediu |-> pediu, baixou |-> baixou, raiz |-> DirPadrao, check |-> chk,
     ex |-> ex]

\* the default-directory branch (lines 176-198)
RamoPadrao(d0, f, resp, wr) ==
    LET d1 == [d0 EXCEPT !.download_dir = DirPadrao, !.local_path = LocalPadrao]
        chk == [feito |-> TRUE, arquivo |-> f[LocalPadrao],
                resposta |-> pdf_disponivel(f, LocalPadrao)]
    IN  IF pdf_disponivel(f, d1.local_path) = "True"
        THEN Extraido(extract_text(d1, f, d1.local_path), f, 0, 0, chk)
        ELSE LET dl == download_pdf(d1, f, d1.internet_path, d1.local_path, resp, wr)
             IN  IF dl.ret = "True"
                 THEN Extraido(extract_text(d1, dl.fs, d1.local_path), dl.fs,
                               dl.pediu, 1, chk)
                 ELSE IF dl.ret = "False"
                 \* line 198 reads the unbound name `e`
                 THEN [ctor |-> "NameError", d |-> NoDiario, fs |-> dl.fs,
                       abriu |-> 0, rets |-> <<>>, pediu |-> dl.pediu,
                       baixou |-> 0, raiz |-> DirPadrao, check |-> chk,
                       ex |-> SemExtracao]
                 ELSE [ctor |-> dl.ret, d |-> NoDiario, fs |-> dl.fs,
                       abriu |-> 0, rets |-> <<>>, pediu |-> dl.pediu,
                       baixou |-> 0, raiz |-> DirPadrao, check |-> chk,
                       ex |-> SemExtracao]

Falhou(exc, f) ==
    [ctor |-> exc, d |-> NoDiario, fs |-> f, abriu |-> 0, rets |-> <<>>,
     pediu |-> 0, baixou |-> 0, raiz |-> DirPadrao, check |-> NoCheck,
     ex |-> SemExtracao]

\* DiarioOficial(dia, mes, ano, download_dir)
DiarioOficial(dt, dir, idx, resp, wr, f, h) ==
    LET dia == Efetivo(dt[1], h[3])
        mes == Efetivo(dt[2], h[2])
        ano == Efetivo(dt[3], h[1])
        val == DataDiario(dia, mes, ano, "int", h)
        ach == diario_existe(idx)
        d0 == [NoDiario EXCEPT !.diario_valido = ach.valido,
                               !.internet_path = ach.internet_path,
                               !.pdf_file = ach.pdf_file]
    IN  IF val # "ok" THEN [consultou |-> 0] @@ Falhou(val, f)
        ELSE [consultou |-> ach.pedidos] @@
             (IF ~ach.valido THEN Falhou("DiarioNaoExiste", f)
              ELSE IF dir # "" THEN RamoCustom(d0, f, dir, resp, wr)
              ELSE RamoPadrao(d0, f, resp, wr))

FsCom(a) == [c \in Caminhos |-> IF c = LocalPadrao THEN a
                                 ELSE IF c = DirCustom THEN Diretorio
                                 ELSE Ausente]

PipeRest ==
    /\ diario = NoDiario
    /\ ctor = "none"
    /\ n_ctor = 0
    /\ opens = 0
    /\ returns = <<>>
    /\ pdf_requests = [r \in Raizes |-> 0]
    /\ downloads_ok = [r \in Raizes |-> 0]
    /\ requests_after_ok = [r \in Raizes |-> 0]
    /\ disponivel = NoCheck

\* the cache directory may hold any file left by earlier runs
PipeInit == fs \in {FsCom(a) : a \in Arquivos} /\ PipeRest

PipeIdle == fs = FsCom(Ausente) /\ PipeRest

\* what one DiarioOficial(...) call with the scenario ch and the result r
\* leaves behind
Construido(ch, r) ==
    /\ fs' = r.fs
    /\ diario' = r.d
    /\ ctor' = r.ctor
    /\ opens' = r.abriu
    /\ returns' = r.rets
    /\ pdf_requests' = [pdf_requests EXCEPT ![r.raiz] = @ + r.pediu]
    /\ downloads_ok' = [downloads_ok EXCEPT ![r.raiz] = @ + r.baixou]
    /\ requests_after_ok' =
          [requests_after_ok EXCEPT ![r.raiz] =
              IF downloads_ok[r.raiz] > 0 THEN @ + r.pediu ELSE @]
    /\ disponivel' = IF r.check.feito THEN r.check ELSE disponivel
    /\ chamada' = [feita |-> TRUE, dt |-> ch[1], dir |-> ch[2], idx |-> ch[3],
                   resp_ok |-> ch[4][1].ok, wr |-> ch[4][2],
                   achou |-> fs[LocalPadrao].conteudo.tipo,
                   consultou |-> r.consultou, pediu |-> r.pediu,
                   baixou |-> r.baixou]
    /\ extracao' = IF r.ex.abriu = 0 THEN NoExtracao
                   ELSE [feita |-> TRUE, onde |-> "__init__", leu |-> r.ex.leu,
                         ret |-> r.ex.ret, exc |-> r.ex.exc, falhou |-> r.ex.falhou,
                         numero |-> r.ex.d.numero_diario]
    /\ n_ctor' = n_ctor + 1

\* diario = DiarioOficial(dia=..., mes=..., ano=..., download_dir=...)
Construct ==
    /\ n_ctor < MaxConstrucoes
    /\ \E ch \in Chamadas :
       \E r \in {DiarioOficial(ch[1], ch[2], ch[3], ch[4][1], ch[4][2], fs, hoje)} :
            Construido(ch, r)
    /\ UNCHANGED <<dateVars, docVars, storeVars, http, lote, vocabulario, limpeza, baixa>>

\* diario.extract_text(pdf_path=diario.local_path)
ExtractText ==
    /\ ctor = "ok"
    /\ Len(returns) < MaxChamadas
    /\ \E ex \in {extract_text(diario, fs, diario.local_path)} :
        /\ diario' = ex.d
        /\ opens' = opens + ex.abriu
        /\ returns' = IF ex.exc = "" THEN Append(returns, ex.ret) ELSE returns
        /\ extracao' = [feita |-> TRUE, onde |-> "extract_text", leu |-> ex.leu,
                        ret |-> ex.ret, exc |-> ex.exc, falhou |-> ex.falhou,
                        numero |-> ex.d.numero_diario]
    /\ UNCHANGED <<dateVars, fs, ctor, n_ctor, pdf_requests, downloads_ok,
                   requests_after_ok, disponivel, docVars, storeVars, chamada,
                   http, lote, vocabulario, limpeza, baixa>>

\* diario._pdf_disponivel(pdf_path)
PdfDisponivel ==
    /\ \E c \in Caminhos :
        disponivel' = [feito |-> TRUE, arquivo |-> fs[c],
                       resposta |-> pdf_disponivel(fs, c)]
    /\ UNCHANGED <<dateVars, fs, diario, ctor, n_ctor, opens, returns,
                   pdf_requests, downloads_ok, requests_after_ok, docVars,
                   storeVars, auxVars>>

\* diario.download_pdf(diario.internet_path, local_path=p) by a caller, with p
\* omitted ("") or given
DownloadPdf ==
    /\ ctor = "ok"
    /\ ~baixa.feita
    /\ \E p \in {"", LocalPadrao, LocalCopia}, tr \in Transferencias :
       \E r \in {download_pdf(diario, fs, diario.internet_path, p, tr[1], tr[2])} :
        /\ fs' = r.fs
        /\ baixa' = [feita |-> TRUE, local_path |-> p, ret |-> r.ret,
                     corpo |-> tr[1].corpo,
                     em_p |-> r.fs[IF p = "" THEN diario.local_path ELSE p]]
        /\ pdf_requests' = [pdf_requests EXCEPT ![diario.download_dir] = @ + r.pediu]
        /\ downloads_ok' =
              [downloads_ok EXCEPT ![diario.download_dir] =
                  IF r.ret = "True" THEN @ + 1 ELSE @]
        /\ requests_after_ok' =
              [requests_after_ok EXCEPT ![diario.download_dir] =
                  IF downloads_ok[diario.download_dir] > 0 THEN @ + r.pediu ELSE @]
    /\ UNCHANGED <<dateVars, diario, ctor, n_ctor, opens, returns, disponivel,
                   docVars, storeVars, chamada, extracao, http, lote,
                   vocabulario, limpeza>>

----------------------------------------------------------------------------
(* The query endpoints: api.py 48-146 (FastAPI), flask_version.py 46-123 and *)
(* 297-359 (Flask).  A handler is a try body and its except clauses: the     *)
(* body leaves with an exception class or with none, an HTTP error raised    *)
(* inside the body is an exception like any other, and the first clause that *)
(* matches the class decides the answer.                                     *)

\* os.path.exists(p) and os.path.isfile(p)
ArquivoExiste(f, p) == f[p].tipo = "arquivo"

Resultado(status, corpo, chamou, r) ==
    [status |-> status, corpo |-> corpo, chamou |-> chamou, r |-> r]

\* api.py consultar_diario: GET /api/diario with integer parameters
consultar_diario(dt, idx, resp, wr, f, h) ==
    LET r == DiarioOficial(dt, "", idx, resp, wr, f, h)
        chamou == DatetimeOk(dt[3], dt[2], dt[1]) /\ ~DateAfter(dt[3], dt[2], dt[1], h)
        \* what leaves the try body (lines 66-85)
        exc == IF ~DatetimeOk(dt[3], dt[2], dt[1]) THEN "ValueError"
               ELSE IF DateAfter(dt[3], dt[2], dt[1], h) THEN "HTTPException400"
               ELSE IF r.ctor # "ok" THEN r.ctor
               ELSE ""
    IN  IF exc = "" THEN Resultado(200, "encontrado", chamou, r)
        \* except DiarioNaoExiste (87-93), except Exception (95-100)
        ELSE IF exc = "DiarioNaoExiste" THEN Resultado(200, "nao_encontrado", chamou, r)
        ELSE Resultado(500, "erro", chamou, r)

\* api.py download_diario: GET /api/diario/download with integer parameters
download_diario(dt, idx, resp, wr, f, h) ==
    LET r == DiarioOficial(dt, "", idx, resp, wr, f, h)
        \* what leaves the try body (lines 119-134)
        exc == IF r.ctor # "ok" THEN r.ctor
               ELSE IF ArquivoExiste(r.fs, r.d.local_path) THEN ""
               ELSE "HTTPException404"
    IN  IF exc = "" THEN Resultado(200, "pdf", TRUE, r)
        \* except DiarioNaoExiste (136-140), except Exception (142-146)
        ELSE IF exc = "DiarioNaoExiste" THEN Resultado(404, "erro", TRUE, r)
        ELSE Resultado(500, "erro", TRUE, r)

\* what leaves the validation block shared by the Flask handlers: the class
\* raised by DataDiario, replaced by the abort(400) of the clause for
\* ValueError; no clause matches DiarioNaoExiste and nothing raises DataFutura
validacao_flask(dt, forma, h) ==
    LET v == DataDiario(dt[1], dt[2], dt[3], forma, h)
    IN  IF v \in {"ValidationError", "ValueError"} THEN "HTTPException400" ELSE v

\* flask_version.py consultar_diario: GET /api/diario, the parameters are the
\* strings of the query
flask_consultar_diario(dt, forma, idx, resp, wr, f, h) ==
    LET r == DiarioOficial(dt, "", idx, resp, wr, f, h)
        v == validacao_flask(dt, forma, h)
        \* what leaves the try body (lines 58-100)
        exc == IF v # "ok" THEN v
               ELSE IF r.ctor # "ok" THEN r.ctor
               ELSE ""
    IN  IF exc = "" THEN Resultado(200, "encontrado", v = "ok", r)
        \* except DataFutura, except DiarioNaoExiste (102-113)
        ELSE IF exc \in {"DataFutura", "DiarioNaoExiste"}
        THEN Resultado(200, "nao_encontrado", v = "ok", r)
        \* except ValueError (114-119)
        ELSE IF exc \in {"ValueError", "ValidationError"}
        THEN Resultado(400, "erro", v = "ok", r)
        \* except Exception (120-123)
        ELSE Resultado(500, "erro", v = "ok", r)

\* flask_version.py download_diario: GET /api/diario/download
flask_download_diario(dt, forma, idx, resp, wr, f, h) ==
    LET r == DiarioOficial(dt, "", idx, resp, wr, f, h)
        v == validacao_flask(dt, forma, h)
        \* what leaves the try body (lines 297-347)
        exc == IF v # "ok" THEN v
               ELSE IF r.ctor # "ok" THEN r.ctor
               ELSE IF ArquivoExiste(r.fs, r.d.local_path) THEN ""
               ELSE "HTTPException404"
    IN  IF exc = "" THEN Resultado(200, "pdf", v = "ok", r)
        \* except DiarioNaoExiste (349-353), except Exception (355-359)
        ELSE IF exc = "DiarioNaoExiste" THEN Resultado(404, "erro", v = "ok", r)
        ELSE Resultado(500, "erro", v = "ok", r)

Frentes == {"fastapi", "flask"}
Rotas == {"/api/diario", "/api/diario/download"}
DatasHttp == DatasValidas \cup DatasInvalidas
\* what the site answers during a request: a transfer is only read when the
\* index page holds the link
Mundos ==
    {<<idx, SemTransferencia>> : idx \in IndicesFalhos}
    \cup {<<"link", <<Resposta(FALSE, Bytes0), "ok">>>>,
          <<"link", <<Resposta(TRUE, Pdf(<<"capa">>)), "ok">>>>,
          <<"link", <<Resposta(TRUE, Pdf(<<"capa">>)), "write_error">>>>}

\* the requests: FastAPI converts the parameters to int before the handler
\* runs, Flask hands over the strings
Pedidos ==
    {<<"fastapi", rota, dt, "int">> : rota \in Rotas, dt \in DatasHttp}
    \cup {<<"flask", rota, dt, forma>> :
              rota \in Rotas, dt \in DatasHttp, forma \in {"digits", "nondigit"}}

\* the handler that serves the request
Atende(pd, idx, resp, wr, f, h) ==
    IF pd[1] = "fastapi"
    THEN (IF pd[2] = "/api/diario"
          THEN consultar_diario(pd[3], idx, resp, wr, f, h)
          ELSE download_diario(pd[3], idx, resp, wr, f, h))
    ELSE (IF pd[2] = "/api/diario"
          THEN flask_consultar_diario(pd[3], pd[4], idx, resp, wr, f, h)
          ELSE flask_download_diario(pd[3], pd[4], idx, resp, wr, f, h))

\* one request to a query endpoint, served to the end
Requisicao ==
    /\ n_ctor < MaxConstrucoes
    /\ \E pd \in Pedidos, md \in Mundos :
       \E idx \in {md[1]}, tr \in {md[2]} :
       \E a \in {Atende(pd, idx, tr[1], tr[2], fs, hoje)} :
        /\ IF a.chamou
           THEN Construido(<<pd[3], "", idx, tr>>, a.r)
           ELSE UNCHANGED <<pipeVars, chamada, extracao>>
        /\ http' = [feita |-> TRUE, frente |-> pd[1], rota |-> pd[2], dt |-> pd[3],
                    forma |-> pd[4], idx |-> idx, chamou |-> a.chamou,
                    status |-> a.status, corpo |-> a.corpo,
                    local |-> IF a.chamou THEN a.r.fs[LocalPadrao] ELSE fs[LocalPadrao]]
    /\ UNCHANGED <<dateVars, docVars, storeVars, lote, vocabulario, limpeza, baixa>>

----------------------------------------------------------------------------
(* DiarioRange: util/download_diario_range.py 8-77.  Every day of a run has  *)
(* its own issue and its own file; the runs modelled lie in months before    *)
(* the one of the issue that `fs` holds.                                     *)

\* the days on which the site may list no issue, and the day on which the
\* download may fail
DiasSemEdicao == {1, 2, 28, 29}
DiasComFalha == {3}
MundosLote == [sem_edicao : SUBSET DiasSemEdicao, falha : {0} \cup DiasComFalha]
HojeLote == <<2024, 3, 20>>

\* DiarioOficial(dia=dia, mes=mes, ano=self.ano) on a day of the run: how the
\* constructor ends
ctor_do_dia(dia, mes, ano, md, h) ==
    DiarioOficial(<<dia, mes, ano>>, "",
                  IF dia \in md.sem_edicao THEN "no_link" ELSE "link",
                  Resposta(dia # md.falha, Pdf(<<"capa">>)), "ok",
                  FsCom(Ausente), h).ctor

\* the loop `for dia in range(1, dias_no_mes)` from `dia` on (lines 18-28):
\* only DiarioNaoExiste is caught
RECURSIVE laco_dias(_, _, _, _, _, _, _)
laco_dias(dia, dias_no_mes, mes, ano, md, h, acc) ==
    IF dia >= dias_no_mes \/ acc.exc # "" THEN acc
    ELSE laco_dias(dia + 1, dias_no_mes, mes, ano, md, h,
            CHOOSE a \in {[tentados |-> acc.tentados \cup {<<mes, dia>>},
                           local_paths |-> IF c = "ok"
                                           THEN Append(acc.local_paths, <<mes, dia>>)
                                           ELSE acc.local_paths,
                           exc |-> IF c \in {"ok", "DiarioNaoExiste"} THEN "" ELSE c] :
                          c \in {ctor_do_dia(dia, mes, ano, md, h)}} : TRUE)

SemTentativas == [tentados |-> {}, local_paths |-> <<>>, exc |-> ""]

\* DiarioRange.get_diario_month(mes) on an instance with self.mes, self.ano
get_diario_month(self, mes, md, h, acc) ==
    LET m == IF mes = 0 THEN self.mes ELSE mes
    IN  laco_dias(1, DaysInMonth(self.ano, m), m, self.ano, md, h,
                  [acc EXCEPT !.local_paths = <<>>])

\* the loop `for mes in meses` from `mes` on (lines 66-76)
RECURSIVE laco_meses(_, _, _, _, _)
laco_meses(mes, self, md, h, acc) ==
    IF mes > 12 \/ mes > h[2] \/ acc.exc # "" THEN acc
    ELSE laco_meses(mes + 1, self, md, h,
            CHOOSE a \in {get_diario_month(self, mes, md, h, b) : b \in {acc}} : TRUE)

\* DiarioRange.get_diario_ano(ano): the argument only reaches the log lines
get_diario_ano(self, ano, md, h) == laco_meses(1, self, md, h, SemTentativas)

\* DiarioRange(mes, ano)
DiarioRange(mes, ano, h) ==
    [mes |-> IF mes = 0 THEN h[2] ELSE mes, ano |-> IF ano = 0 THEN h[1] ELSE ano]

MesesLote == {0, 2}
AnosLote == {0, 2023}
\* the year runs are taken in fewer worlds, a year being many constructions
MundosAno == {md \in MundosLote : md.sem_edicao \in {{}, {1}, {2, 28}}}

\* DiarioRange(mes, ano).get_diario_month()
GetDiarioMonth ==
    /\ \E mes \in MesesLote, ano \in AnosLote, md \in MundosLote :
       \E self \in {DiarioRange(mes, ano, hoje)} :
       \E r \in {get_diario_month(self, 0, md, hoje, SemTentativas)} :
        lote' = [feito |-> TRUE, op |-> "get_diario_month", self |-> self,
                 sem_edicao |-> md.sem_edicao, falha |-> md.falha,
                 tentados |-> r.tentados, exc |-> r.exc]
    /\ UNCHANGED <<dateVars, pipeVars, docVars, storeVars, chamada, extracao, http,
                   vocabulario, limpeza, baixa>>

\* DiarioRange(ano=ano).get_diario_ano()
GetDiarioAno ==
    /\ \E ano \in AnosLote, md \in MundosAno :
       \E self \in {DiarioRange(0, ano, hoje)} :
       \E r \in {get_diario_ano(self, 0, md, hoje)} :
        lote' = [feito |-> TRUE, op |-> "get_diario_ano", self |-> self,
                 sem_edicao |-> md.sem_edicao, falha |-> md.falha,
                 tentados |-> r.tentados, exc |-> r.exc]
    /\ UNCHANGED <<dateVars, pipeVars, docVars, storeVars, chamada, extracao, http,
                   vocabulario, limpeza, baixa>>

----------------------------------------------------------------------------
(* Texts.  A text is a sequence of tokens and stands for their concatenation. *)
(* Positions are token indices, which grow with the character offsets.        *)

\* \s
Brancos == {" ", "\n"}

\* tokens of the shape \d+\.\d+
Pontuados == {"46.073", "46.074"}

\* tokens of the shape \d+
Digitos == {"244012005", "00", "12", "2025"}

\* tokens of the shape \d{3}\.\d{3}\.\d{3}-\d{2}
Cpfs == {"123.456.789-10"}

\* the match of (\d+\.\d+) anchored at the start of a token, "" when there is none
PrefixoPontuado(tok) ==
    IF tok \in Pontuados THEN tok
    ELSE IF tok = "123.456.789-10" THEN "123.456"
    ELSE ""

Min(S) == CHOOSE x \in S : \A y \in S : x <= y

RECURSIVE Ordenado(_)
Ordenado(S) == IF S = {} THEN <<>> ELSE <<Min(S)>> \o Ordenado(S \ {Min(S)})

\* the text as one string
RECURSIVE Str(_)
Str(t) == IF t = <<>> THEN "" ELSE Head(t) \o Str(Tail(t))

\* first index at or after i that does not hold whitespace: the end of \s*
RECURSIVE SaltaBrancos(_, _)
SaltaBrancos(t, i) ==
    IF i <= Len(t) /\ t[i] \in Brancos THEN SaltaBrancos(t, i + 1) ELSE i

RECURSIVE lstrip(_)
lstrip(t) == IF t # <<>> /\ Head(t) \in Brancos THEN lstrip(Tail(t)) ELSE t

RECURSIVE rstrip(_)
rstrip(t) ==
    IF t # <<>> /\ t[Len(t)] \in Brancos THEN rstrip(SubSeq(t, 1, Len(t) - 1)) ELSE t

\* str.strip()
strip(t) == lstrip(rstrip(t))

\* text[a:b], with b exclusive
Fatia(t, a, b) == SubSeq(t, a, b - 1)

\* str.find(sub) searching from the start of the text, whatever start is
find_do_inicio(t, sub, start) ==
    LET ps == {p \in 1 .. Len(t) - Len(sub) + 1 : SubSeq(t, p, p + Len(sub) - 1) = sub}
    IN  IF ps = {} THEN 0 ELSE Min(ps)

\* str.find(sub, start): the first position at or after start, 0 for -1
find(t, sub, start) ==
    LET ps == {p \in start .. Len(t) - Len(sub) + 1 : Fatia(t, p, p + Len(sub)) = sub}
    IN  IF ps = {} THEN 0 ELSE Min(ps)

\* the pattern <palavra>\s+Nº\s+(\d+\.\d+) matches at position i
MarcaLargaEm(t, i, palavra) ==
    /\ i <= Len(t) /\ t[i] = palavra
    /\ LET j == SaltaBrancos(t, i + 1) IN
        /\ j > i + 1 /\ j <= Len(t) /\ t[j] = "Nº"
        /\ LET k == SaltaBrancos(t, j + 1) IN
            k > j + 1 /\ k <= Len(t) /\ PrefixoPontuado(t[k]) # ""

\* the pattern "<palavra> Nº \d+\.\d+", single spaces, matches at position i
MarcaJustaEm(t, i, palavra) ==
    /\ i + 4 <= Len(t)
    /\ t[i] = palavra /\ t[i + 1] = " " /\ t[i + 2] = "Nº" /\ t[i + 3] = " "
    /\ PrefixoPontuado(t[i + 4]) # ""

----------------------------------------------------------------------------
(* Segmentation: Acordao.get_sections, Resolucao.split_sections *)

\* the ending list without its last entry
section_delimiters_sem_anexo == {<<"PAUTA", " ", "DE", " ", "JULGAMENTO">>}

\* the delimiters of the list that the words of these texts can spell
section_delimiters == {<<"PAUTA", " ", "DE", " ", "JULGAMENTO">>,
                       <<"Download", " ", "Anexo">>}

\* list(re.finditer(acordao_pattern, text)), as start positions
acordao_matches(t) == Ordenado({i \in 1 .. Len(t) : MarcaLargaEm(t, i, "ACÓRDÃO")})

\* a span keeps the positions it was cut at beside its text
Span(ini, fim, t) == [ini |-> ini, fim |-> fim, texto |-> t]

get_sections(text, texto_original) ==
    LET t == IF text = <<>> THEN texto_original ELSE text
        ms == acordao_matches(t)
        end_pos(i) ==
            IF i < Len(ms) THEN ms[i + 1]
            ELSE Min({Len(t) + 1} \cup
                     ({find(t, d, ms[i]) : d \in section_delimiters} \ {0}))
        todos == [i \in 1 .. Len(ms) |->
                    Span(ms[i], end_pos(i), strip(Fatia(t, ms[i], end_pos(i))))]
    IN  SelectSeq(todos, LAMBDA s : s.texto # <<>>)

\* positions where (?=RESOLUÇÃO Nº \d+\.\d+) holds
resolucao_matches(t) == Ordenado({i \in 1 .. Len(t) : MarcaJustaEm(t, i, "RESOLUÇÃO")})

split_sections(text) ==
    LET ms == resolucao_matches(text)
        cortes == <<1>> \o ms \o <<Len(text) + 1>>
        sections == [i \in 1 .. Len(cortes) - 1 |->
                        Span(cortes[i], cortes[i + 1],
                             Fatia(text, cortes[i], cortes[i + 1]))]
    IN  SelectSeq(sections, LAMBDA s : MarcaJustaEm(strip(s.texto), 1, "RESOLUÇÃO"))

NoSecoes == [feito |-> FALSE, tipo |-> "", spans |-> <<>>]

NoCampos == [feito |-> FALSE, keys |-> <<>>, values |-> <<>>]

NoWrite == [op |-> "none"]

DocRest ==
    /\ secoes = NoSecoes
    /\ campos = NoCampos
    /\ documentos = <<>>
    /\ n_extract = 0

DocIdle == texto = <<>> /\ DocRest

StoreIdle ==
    /\ arquivos = <<>>
    /\ indice = <<>>
    /\ gravados = {}
    /\ ultima = NoWrite

DateIdle == hoje = HojePipeline /\ data_in = NoData /\ data_out = "none"

\* the texts made of at most n pieces of P
RECURSIVE Textos(_, _)
Textos(P, n) ==
    IF n = 0 THEN {<<>>}
    ELSE LET menores == Textos(P, n - 1)
         IN  menores \cup {p \o t : p \in P, t \in menores}

PecasSeg ==
    { <<"ACÓRDÃO", " ", "Nº", " ", "46.073">>,
      <<"ACÓRDÃO", "\n", "Nº", " ", "46.074">>,
      <<"ACÓRDÃO", " ", "Nº", " ", "244012005">>,
      <<"RESOLUÇÃO", " ", "Nº", " ", "46.073">>,
      <<"RESOLUÇÃO", "\n", "Nº", " ", "46.074">>,
      <<" ", "Recurso", " ">>,
      <<"Download", " ", "Anexo">>,
      <<"\n">> }

TextosSeg == Textos(PecasSeg, MaxPecas)

\* sections = self.get_sections(text=texto_original)     (acordao.py 49)
GetSections ==
    /\ secoes' = [feito |-> TRUE, tipo |-> "acordao",
                  spans |-> get_sections(texto, texto)]
    /\ UNCHANGED <<dateVars, pipeVars, texto, campos, documentos, n_extract,
                   storeVars, auxVars>>

\* Resolucao.split_sections(text)
SplitSections ==
    /\ secoes' = [feito |-> TRUE, tipo |-> "resolucao",
                  spans |-> split_sections(texto)]
    /\ UNCHANGED <<dateVars, pipeVars, texto, campos, documentos, n_extract,
                   storeVars, auxVars>>

----------------------------------------------------------------------------
(* Words.  Every other token is a word: one maximal run of \w characters.   *)
(* No word of the texts below ends with another one, so the literal "key:"  *)
(* occurs exactly where the token `key` is followed by the token ":".       *)

\* tokens with no \w character at their end: the run before a colon is empty
SemCorrida == Brancos \cup {":", "-", "2°", "[REDIGIDO]"}

\* tokens with no \w character at their start
SemInicio == Brancos \cup {":", "-", "[REDIGIDO]"}

\* the words whose first character is upper case: key[0].isupper()
Maiusculas ==
    {"ACÓRDÃO", "RESOLUÇÃO", "Nº", "Processo", "Assunto", "Recurso",
     "Reconsideração", "Município", "MUNICÍPIO", "Castanhal", "Órgão",
     "Prefeitura", "Advogado", "Fulano", "CPF", "Interessado", "Responsável",
     "Numero", "Categoria", "Instrução", "Controladoria", "Sessão",
     "Eletrônica", "PA", "A", "Download", "Anexo", "PAUTA", "DE", "JULGAMENTO"}

\* str.lower()
lower(tok) ==
    CASE tok = "ACÓRDÃO" -> "acórdão"
      [] tok = "RESOLUÇÃO" -> "resolução"
      [] tok = "Nº" -> "nº"
      [] tok = "Processo" -> "processo"
      [] tok = "Assunto" -> "assunto"
      [] tok = "Recurso" -> "recurso"
      [] tok = "Reconsideração" -> "reconsideração"
      [] tok \in {"Município", "MUNICÍPIO"} -> "município"
      [] tok = "Castanhal" -> "castanhal"
      [] tok = "Órgão" -> "órgão"
      [] tok = "Prefeitura" -> "prefeitura"
      [] tok = "Advogado" -> "advogado"
      [] tok = "Fulano" -> "fulano"
      [] tok = "CPF" -> "cpf"
      [] tok = "Interessado" -> "interessado"
      [] tok = "Responsável" -> "responsável"
      [] tok = "Numero" -> "numero"
      [] tok = "Categoria" -> "categoria"
      [] tok = "Instrução" -> "instrução"
      [] tok = "Controladoria" -> "controladoria"
      [] tok = "Sessão" -> "sessão"
      [] tok = "Eletrônica" -> "eletrônica"
      [] tok = "PA" -> "pa"
      [] tok = "A" -> "a"
      [] tok = "Download" -> "download"
      [] tok = "Anexo" -> "anexo"
      [] tok = "PAUTA" -> "pauta"
      [] tok = "DE" -> "de"
      [] tok = "JULGAMENTO" -> "julgamento"
      [] OTHER -> tok

\* the run of [\w()*] characters that ends a token
UltimaCorrida(tok) ==
    IF tok \in SemCorrida THEN ""
    ELSE IF tok = "46.073" THEN "073"
    ELSE IF tok = "46.074" THEN "074"
    ELSE IF tok = "123.456.789-10" THEN "10"
    ELSE tok

\* (?!PA:) with IGNORECASE: a run that is exactly "PA" is entered one character late
SemPA(run) == IF lower(run) = "pa" THEN "A" ELSE run

Range(s) == {s[i] : i \in 1 .. Len(s)}

\* the filter loop of _get_keys with keys compared in lower case
RECURSIVE filtrar_chaves_sem_caixa(_, _)
filtrar_chaves_sem_caixa(matches, filtered_keys) ==
    IF matches = <<>> THEN filtered_keys
    ELSE LET key == Head(matches)
             fica == /\ lower(key) \notin {"cpf", "endereço", "(cpf", "(cpf)"}
                     /\ lower(key) \notin {lower(k) : k \in Range(filtered_keys)}
                     /\ Len(key) > 1
                     /\ key \in Maiusculas
         IN  filtrar_chaves_sem_caixa(Tail(matches),
                            IF fica THEN Append(filtered_keys, key) ELSE filtered_keys)

\* the filter loop of _get_keys                         (document.py 154-162)
RECURSIVE filtrar_chaves(_, _)
filtrar_chaves(matches, filtered_keys) ==
    IF matches = <<>> THEN filtered_keys
    ELSE LET key == Head(matches)
             fica == /\ lower(key) \notin {"cpf", "endereço", "(cpf", "(cpf)"}
                     /\ key \notin Range(filtered_keys)
                     /\ Len(key) > 1
                     /\ key \in Maiusculas
         IN  filtrar_chaves(Tail(matches),
                            IF fica THEN Append(filtered_keys, key) ELSE filtered_keys)

\* re.findall(r"(?!PA:)\w*[\(\w*\)]*(?=:\s)", text): the run before every colon
\* that whitespace follows; the empty matches elsewhere are dropped by len(key) > 1
chaves_matches(text) ==
    LET ps == Ordenado({i \in 1 .. Len(text) - 2 :
                            text[i + 1] = ":" /\ text[i + 2] \in Brancos})
    IN  [k \in 1 .. Len(ps) |-> SemPA(UltimaCorrida(text[ps[k]]))]

_get_keys(text) == filtrar_chaves(chaves_matches(text), <<>>)

----------------------------------------------------------------------------
(* clean_text and redaction: documents/document.py 90-140 *)

\* re.findall(r"CPF:\d{3}\.\d{3}\.\d{3}-\d{2}", texto) finds something
_is_there_personal_data(t) ==
    \E i \in 1 .. Len(t) - 2 :
        t[i] = "CPF" /\ t[i + 1] = ":" /\ t[i + 2] \in Cpfs

\* re.sub(r"\d{3}\.\d{3}\.\d{3}-?\d{2}", "[REDIGIDO]", text)
_redact_personal_data(t) ==
    [i \in 1 .. Len(t) |-> IF t[i] \in Cpfs THEN "[REDIGIDO]" ELSE t[i]]

\* tokens that hold more than one run of \w characters
VariasCorridas == Pontuados \cup Cpfs

\* re.sub(r"(\w+)-\s+(\w+)", r"\1\2", text), scanning from position i: the
\* hyphen and the whitespace go, the two runs become adjacent
RECURSIVE juntar_hifens(_, _)
juntar_hifens(t, i) ==
    IF i + 3 > Len(t) THEN t
    ELSE LET j == SaltaBrancos(t, i + 2)
             casa == /\ t[i] \notin SemCorrida
                     /\ t[i + 1] = "-"
                     /\ j > i + 2 /\ j <= Len(t)
                     /\ t[j] \notin SemInicio
         IN  IF casa
             THEN juntar_hifens(SubSeq(t, 1, i) \o SubSeq(t, j, Len(t)),
                                IF t[j] \in VariasCorridas THEN i + 1 ELSE i + 2)
             ELSE juntar_hifens(t, i + 1)

\* re.sub(r"\n{3,}", "\n\n", text) when c = "\n", n = 3, m = 2
\* re.sub(r" {2,}", " ", text)     when c = " ",  n = 2, m = 1
RECURSIVE encolher(_, _, _, _)
encolher(t, c, n, m) ==
    IF t = <<>> THEN <<>>
    ELSE IF Head(t) # c THEN <<Head(t)>> \o encolher(Tail(t), c, n, m)
    ELSE LET fim == CHOOSE k \in 1 .. Len(t) + 1 :
                        /\ \A x \in 1 .. k - 1 : t[x] = c
                        /\ k = Len(t) + 1 \/ t[k] # c
             corrida == fim - 1
             resto == SubSeq(t, fim, Len(t))
         IN  [x \in 1 .. (IF corrida >= n THEN m ELSE corrida) |-> c]
                \o encolher(resto, c, n, m)

clean_text(text) ==
    IF text = <<>> THEN <<>>
    ELSE LET \* of the removal patterns only r"^\s*-\s*$" can match these texts
             t1 == IF strip(text) = <<"-">> THEN <<>> ELSE text
             t2 == juntar_hifens(t1, 1)
             t3 == encolher(t2, "\n", 3, 2)
             t4 == encolher(t3, " ", 2, 1)
             t5 == SelectSeq(t4, LAMBDA c : c # "\n")
             t6 == IF _is_there_personal_data(t5) THEN _redact_personal_data(t5)
                   ELSE t5
         IN  strip(t6)

\* words broken by a hyphen, blanks around a line break, line breaks, hyphens
PecasLimpa ==
    { <<"Recurso", "-", " ">>, <<"Recurso">>, <<" ", "\n", " ">>, <<"\n">>,
      <<"-">> }

TextosLimpa == Textos(PecasLimpa, MaxPecas)

\* cleaned = self.clean_text(text), on a text or on the result of the call before
CleanText ==
    /\ \E text \in {texto} \cup (IF limpeza.feito THEN {limpeza.ret} ELSE {}) :
         limpeza' = [feito |-> TRUE, text |-> text, ret |-> clean_text(text),
                     de_saida |-> limpeza.feito /\ text = limpeza.ret]
    /\ UNCHANGED <<dateVars, pipeVars, docVars, storeVars, chamada, extracao,
                   http, lote, vocabulario, baixa>>

----------------------------------------------------------------------------
(* Key/value extraction: documents/document.py 166-402 *)

\* the names of the list that the words of these texts can spell, lower-cased
municipios == {"castanhal"}

\* re.compile(r"\b(" + "|".join(municipios) + r")\b", re.IGNORECASE).search
validate_municipio(key_value) ==
    LET ps == {i \in 1 .. Len(key_value) : lower(key_value[i]) \in municipios}
    IN  IF ps = {} THEN key_value ELSE <<key_value[Min(ps)]>>

\* the last two characters of a token, when they are a digit and any character
DigitoMais(tok) ==
    CASE tok = "2°" -> "2°"
      [] tok = "12" -> "12"
      [] tok = "00" -> "00"
      [] tok = "2025" -> "25"
      [] tok = "244012005" -> "05"
      [] tok = "46.073" -> "73"
      [] tok = "46.074" -> "74"
      [] tok = "123.456.789-10" -> "10"
      [] OTHER -> ""

\* the last character of a token, when it is a digit
UltimoDigito(tok) ==
    CASE tok = "12" -> "2"
      [] tok = "00" -> "0"
      [] tok = "2025" -> "5"
      [] tok = "244012005" -> "5"
      [] tok = "46.073" -> "3"
      [] tok = "46.074" -> "4"
      [] tok = "123.456.789-10" -> "0"
      [] OTHER -> ""

\* re.compile(r"(\d.\sControladoria)").search: the any-character is either the
\* last character of the token with the digit or a space after it
validate_controladoria(key_value) ==
    LET t == key_value
        a == {i \in 1 .. Len(t) - 2 :
                /\ DigitoMais(t[i]) # "" /\ t[i + 1] \in Brancos
                /\ t[i + 2] = "Controladoria"}
        b == {i \in 1 .. Len(t) - 3 :
                /\ UltimoDigito(t[i]) # "" /\ t[i + 1] = " "
                /\ t[i + 2] \in Brancos /\ t[i + 3] = "Controladoria"}
    IN  IF a \cup b = {} THEN key_value
        ELSE LET i == Min(a \cup b)
             IN  IF i \in a THEN <<DigitoMais(t[i]), t[i + 1], "Controladoria">>
                 ELSE <<UltimoDigito(t[i]), " ", t[i + 2], "Controladoria">>

\* first position at or after start where the literal "<key>:" begins, 0 if none
acha_rotulo(t, key, start) ==
    LET ps == {p \in start .. Len(t) - 1 : t[p] = key /\ t[p + 1] = ":"}
    IN  IF ps = {} THEN 0 ELSE Min(ps)

\* values[k] = v
Put(d, k, v) == [x \in DOMAIN d \cup {k} |-> IF x = k THEN v ELSE d[x]]

\* the loop of _extract_key_content after its first n keys.  Keys hold no
\* whitespace, so re.sub(r"\s+", "_", key.lower()) is key.lower().
RECURSIVE extrair_ate(_, _, _)
extrair_ate(text, keys, n) ==
    IF n = 0 THEN <<>>
    ELSE LET values == extrair_ate(text, keys, n - 1)
             key == keys[n]
             ultimo == n = Len(keys)
             \* key:\s*(.*?)\s*(?=next_key:)   or   key:\s*(.*)$
             p == acha_rotulo(text, key, 1)
             q == IF ultimo THEN Len(text) + 1
                  ELSE IF p = 0 THEN 0
                  ELSE acha_rotulo(text, keys[n + 1], p + 2)
             match == p # 0 /\ q # 0
             value == strip(Fatia(text, p + 2, q))
             v1 == IF lower(key) = "município" THEN validate_municipio(value)
                   ELSE value
             v2 == IF lower(key) = "instrução" THEN validate_controladoria(v1)
                   ELSE v1
         IN  Put(values, lower(key), IF match THEN clean_text(v2) ELSE <<>>)

_extract_key_content(text, keys) == extrair_ate(text, keys, Len(keys))

\* labelled fields: a label, a colon, optional whitespace, a content, a space
RotulosKV == {"Assunto", "Município", "Órgão"}

ConteudoKV(rotulo) ==
    CASE rotulo = "Assunto" -> <<"Recurso">>
      [] rotulo = "Município" -> <<"Castanhal">>
      [] rotulo = "Órgão" -> <<"Prefeitura">>

PecasKV ==
    {<<r, ":">> \o b \o ConteudoKV(r) \o <<" ">> :
        r \in RotulosKV, b \in {<<" ">>, <<"\n">>, <<>>}}

TextosKV == Textos(PecasKV, MaxPecas)

\* labelled fields whose labels differ in case, are stoplisted or start in
\* lower case
RotulosCaixa == {"Município", "MUNICÍPIO", "CPF", "endereço", "Assunto"}

ConteudoCaixa(rotulo) ==
    CASE rotulo = "Município" -> "Castanhal"
      [] rotulo = "MUNICÍPIO" -> "Prefeitura"
      [] rotulo = "CPF" -> "Fulano"
      [] rotulo = "endereço" -> "Anexo"
      [] rotulo = "Assunto" -> "Recurso"

PecasCaixa == {<<r, ":", " ", ConteudoCaixa(r), " ">> : r \in RotulosCaixa}

TextosCaixa == Textos(PecasCaixa, MaxPecas)

\* keys = self._get_keys(clean_raw)
\* extracted_data = self._extract_key_content(clean_raw, keys=keys)  (acordao.py 80-81)
ExtractKeyContent ==
    /\ ~campos.feito
    /\ LET keys == _get_keys(texto) IN
        campos' = [feito |-> TRUE, keys |-> keys,
                   values |-> _extract_key_content(texto, keys)]
    /\ UNCHANGED <<dateVars, pipeVars, texto, secoes, documentos, n_extract,
                   storeVars, auxVars>>

----------------------------------------------------------------------------
(* Persistence: documents/document.py 404-566 *)

\* str.replace(".", ""), token by token
sem_pontos(tok) ==
    CASE tok = "46.073" -> "46073"
      [] tok = "46.074" -> "46074"
      [] tok = "1.234" -> "1234"
      [] tok = "1.235" -> "1235"
      [] tok = "123.456.789-10" -> "123456789-10"
      [] OTHER -> tok

SemPontos(t) == Str([i \in 1 .. Len(t) |-> sem_pontos(t[i])])

\* the file of a record: <download_dir>/<categoria>/<diario_id>_<categoria>_<file_id>.<format>
file_path(download_dir, data, format) ==
    LET file_id == IF data["numero"] # <<>> THEN SemPontos(data["numero"]) ELSE "None"
        diario_id == IF data["numero_diario"] # <<>>
                     THEN SemPontos(data["numero_diario"]) ELSE "None"
        categoria == Str(data["categoria"])
        path == IF categoria = "" THEN download_dir
                ELSE download_dir \o "/" \o categoria
        file_name == diario_id \o "_" \o categoria \o "_" \o file_id \o "." \o format
    IN  path \o "/" \o file_name

\* what _cache_entry writes: the dump of the record with the span, or the span
conteudo_do_arquivo(texto_secao, data, format) ==
    IF format = "json" THEN [data |-> data, texto_original |-> texto_secao]
    ELSE [texto_original |-> texto_secao]

\* (category, numero) of a record
Chave(data) == <<Str(data["categoria"]), Str(data["numero"])>>

\* _cache_entry that writes without looking for the file first
_cache_entry_sem_verificar(arqs, texto_secao, download_dir, data, format) ==
    [x \in DOMAIN arqs \cup {file_path(download_dir, data, format)} |->
        IF x = file_path(download_dir, data, format)
        THEN [chave |-> Chave(data),
              conteudo |-> conteudo_do_arquivo(texto_secao, data, format)]
        ELSE arqs[x]]

\* _cache_entry(texto, diario, data, format): the files afterwards
_cache_entry(arqs, texto_secao, download_dir, data, format) ==
    IF file_path(download_dir, data, format) \in DOMAIN arqs THEN arqs
    ELSE [x \in DOMAIN arqs \cup {file_path(download_dir, data, format)} |->
            IF x = file_path(download_dir, data, format)
            THEN [chave |-> Chave(data),
                  conteudo |-> conteudo_do_arquivo(texto_secao, data, format)]
            ELSE arqs[x]]

\* _get_vector_db(database): the collection, created empty when there is none
Colecao(idx, database) == IF database \in DOMAIN idx THEN idx[database] ELSE {}

\* _tokenize_and_store(texto, metadados, database): the index afterwards.
\* Collection.add keeps the entry that already holds the id.
_tokenize_and_store(idx, texto_secao, metadados, database) ==
    LET vector_db == Colecao(idx, database)
        existing_entries ==
            {e \in vector_db : /\ e.categoria = Str(metadados["categoria"])
                               /\ e.numero = Str(metadados["numero"])}
        entrada == [id |-> Str(metadados["numero"]),
                    categoria |-> Str(metadados["categoria"]),
                    numero |-> Str(metadados["numero"]),
                    documento |-> texto_secao]
    IN  IF existing_entries # {} THEN Put(idx, database, vector_db)
        ELSE IF \E e \in vector_db : e.id = entrada.id
        THEN Put(idx, database, vector_db)
        ELSE Put(idx, database, vector_db \cup {entrada})

\* the stores together with the record of what was asked of them
Stores(a, i, g, u) == [arquivos |-> a, indice |-> i, gravados |-> g, ultima |-> u]

Pedido(op, chave, contexto) == <<op, chave, contexto>>

Ultima(st, op, chave, contexto, mudou) ==
    [op |-> op, chave |-> chave, contexto |-> contexto,
     repetida |-> \E g \in st.gravados : g[1] = op /\ g[2] = chave,
     igual |-> Pedido(op, chave, contexto) \in st.gravados,
     mudou |-> mudou]

\* one _cache_entry call on the stores
GravaCache(st, texto_secao, download_dir, data, format) ==
    LET depois == _cache_entry(st.arquivos, texto_secao, download_dir, data, format)
        contexto == <<download_dir, Str(data["numero_diario"]), format>>
    IN  Stores(depois, st.indice,
               st.gravados \cup {Pedido("cache", Chave(data), contexto)},
               Ultima(st, "cache", Chave(data), contexto, depois # st.arquivos))

\* one _tokenize_and_store call on the stores
GravaIndice(st, texto_secao, metadados, database) ==
    LET depois == _tokenize_and_store(st.indice, texto_secao, metadados, database)
        antes == Put(st.indice, database, Colecao(st.indice, database))
    IN  Stores(st.arquivos, depois,
               st.gravados \cup {Pedido("index", Chave(metadados), <<database>>)},
               Ultima(st, "index", Chave(metadados), <<database>>, depois # antes))

----------------------------------------------------------------------------
(* Acordao._extract_data: documents/acordao.py 39-136 *)

\* the match of [\d\.]+ anchored at the start of a token, "" when there is none
PrefixoNumero(tok) ==
    IF tok \in Digitos \cup Pontuados THEN tok
    ELSE IF tok = "123.456.789-10" THEN "123.456.789"
    ELSE IF tok = "2°" THEN "2"
    ELSE ""

\* the run of digits that ends a token, "" when it ends otherwise
CorridaDigitos(tok) ==
    IF tok \in Digitos \cup Pontuados \cup Cpfs THEN UltimaCorrida(tok) ELSE ""

\* the match of \d{4} anchored at the start of a token, "" when there is none
Quatro(tok) ==
    CASE tok = "2025" -> "2025"
      [] tok = "244012005" -> "2440"
      [] OTHER -> ""

\* the month names that the words of these texts can spell
meses == {"março"}

\* the token that follows the whitespace after token i, 0 when no whitespace
\* or no token follows: the step over \s+
Proximo(t, i) ==
    LET j == SaltaBrancos(t, i + 1)
    IN  IF i >= 1 /\ j > i + 1 /\ j <= Len(t) THEN j ELSE 0

\* re.search(r"ACÓRDÃO Nº (\d+\.\d+)", clean_raw): group(1), <<>> for no match
numero_match(t) ==
    LET ps == {i \in 1 .. Len(t) : MarcaJustaEm(t, i, "ACÓRDÃO")}
    IN  IF ps = {} THEN <<>> ELSE <<PrefixoPontuado(t[Min(ps) + 4])>>

\* PROCESSO\s+N[º°]\s+([\d\.]+(?:\s*\([\d\.]+\))?) with IGNORECASE: group(1),
\* <<>> for no match; no text here holds a parenthesis
processo_match(t) ==
    LET alvo(i) == Proximo(t, Proximo(t, i))
        ps == {i \in 1 .. Len(t) :
                /\ lower(t[i]) = "processo"
                /\ Proximo(t, i) # 0 /\ lower(t[Proximo(t, i)]) = "nº"
                /\ alvo(i) # 0 /\ PrefixoNumero(t[alvo(i)]) # ""}
    IN  IF ps = {} THEN <<>> ELSE <<PrefixoNumero(t[alvo(Min(ps))])>>

\* the token where the date that starts in token i ends, 0 when none does:
\* \d+\s+de\s+<month>\s+de\s+\d{4}; no text here holds the " a " of a range
fim_da_data(t, i) ==
    LET a == Proximo(t, i)
        b == IF a = 0 THEN 0 ELSE Proximo(t, a)
        c == IF b = 0 THEN 0 ELSE Proximo(t, b)
        e == IF c = 0 THEN 0 ELSE Proximo(t, c)
    IN  IF /\ e # 0 /\ CorridaDigitos(t[i]) # ""
           /\ t[a] = "de" /\ t[b] \in meses /\ t[c] = "de" /\ Quatro(t[e]) # ""
        THEN e ELSE 0

\* group(1) of the date that starts in token i
data_em(t, i) ==
    <<CorridaDigitos(t[i])>> \o SubSeq(t, i + 1, fim_da_data(t, i) - 1)
        \o <<Quatro(t[fim_da_data(t, i)])>>

\* the session date: the first date after "Sessão Eletrônica", else the first
\* date of the section, else <<>>                            (acordao.py 86-99)
sessao_match(t) ==
    LET datas(de) == {i \in de .. Len(t) : fim_da_data(t, i) # 0}
        ancoras == {i \in 1 .. Len(t) - 2 :
                        /\ t[i] = "Sessão" /\ t[i + 1] = " " /\ t[i + 2] = "Eletrônica"
                        /\ datas(i + 3) # {}}
    IN  IF ancoras # {} THEN strip(data_em(t, Min(datas(Min(ancoras) + 3))))
        ELSE IF datas(1) # {} THEN strip(data_em(t, Min(datas(1))))
        ELSE <<>>

\* the fields that are redacted                            (acordao.py 102-108)
campos_redigidos ==
    {"ordenador", "responsavel", "representante_legal", "interessado", "recorrente"}

Max(S) == CHOOSE x \in S : \A y \in S : x >= y

\* clean_raw[:100] followed by "...": the tokens that fit whole, then the
\* token that is cut with the number of its characters that are kept
sample_texto(clean_raw) ==
    LET n == Max({k \in 0 .. Len(clean_raw) :
                    Len(Str(SubSeq(clean_raw, 1, k))) <= TamanhoAmostra})
    IN  [inteiros |-> SubSeq(clean_raw, 1, n),
         cortado |-> IF n = Len(clean_raw) THEN <<>>
                     ELSE <<clean_raw[n + 1],
                            TamanhoAmostra - Len(Str(SubSeq(clean_raw, 1, n)))>>,
         fim |-> "..."]

\* a str as a text
Tok(s) == IF s = "" THEN <<>> ELSE <<s>>

\* for key, value in extracted_data.items(): data_dict[key.lower()] = value
Lowered(extracted_data) ==
    [x \in {lower(k) : k \in DOMAIN extracted_data} |->
        extracted_data[CHOOSE k \in DOMAIN extracted_data : lower(k) = x]]

\* data_dict[k] = v when there is a v, for the assignments under an `if`
Se(k, v) == IF v # <<>> THEN k :> v ELSE <<>>

\* the redaction loop                                      (acordao.py 102-110)
redigir(data_dict) ==
    [f \in DOMAIN data_dict |->
        IF f \in campos_redigidos /\ data_dict[f] # <<>>
        THEN _redact_personal_data(data_dict[f]) ELSE data_dict[f]]

\* the data_dict of a section that holds its number; a later assignment
\* stands to the left of the ones it overrides              (acordao.py 58-118)
montar_data_dict(categoria, clean_raw, d) ==
    ("local" :> [caminho |-> d.local_path, pdf |-> d.pdf_file])
    @@ ("ioepa" :> Tok(d.internet_path))
    @@ ("numero_diario" :> Tok(d.numero_diario))
    @@ ("publicacao" :> Tok(d.publicacao))
    @@ ("sample_texto" :> sample_texto(clean_raw))
    @@ redigir(Se("sessao", sessao_match(clean_raw))
               @@ Lowered(_extract_key_content(clean_raw, _get_keys(clean_raw)))
               @@ Se("processo", processo_match(clean_raw))
               @@ ("numero" :> numero_match(clean_raw))
               @@ ("categoria" :> Tok(categoria)))

\* DocumentoDiarioOficial(**data_dict): the declared fields default to ""
DocumentoDiarioOficial(data_dict) ==
    data_dict @@ [f \in {"categoria", "sessao", "numero", "publicacao",
                         "numero_diario"} |-> <<>>]

\* the body of the loop for one section: the documents and the stores after it
extrair_secao(categoria, section, d, antes) ==
    IF numero_match(section) = <<>> THEN antes
    ELSE LET data_dict == montar_data_dict(categoria, section, d)
             documento == DocumentoDiarioOficial(data_dict)
         IN  [docs |-> Append(antes.docs, documento),
              st |-> GravaIndice(
                        GravaCache(antes.st, section, d.download_dir, documento, "json"),
                        section, data_dict, categoria)]

\* the loop over the first n sections; st holds the stores before the call
RECURSIVE extrair_secoes(_, _, _, _, _)
extrair_secoes(categoria, sections, n, d, st) ==
    IF n = 0 THEN [docs |-> <<>>, st |-> st]
    ELSE CHOOSE depois \in
            {extrair_secao(categoria, sections[n].texto, d, antes) :
                antes \in {extrair_secoes(categoria, sections, n - 1, d, st)}} : TRUE

\* Acordao._extract_data(diario)
_extract_data(d, st) ==
    LET sections == get_sections(d.texto_original, d.texto_original)
    IN  [sections |-> sections,
         r |-> extrair_secoes("acordao", sections, Len(sections), d, st)]

----------------------------------------------------------------------------
(* The builder and the stores as operations *)

\* the DiarioOficial that the builder reads: an issue whose text is t
DiarioDoc(t) ==
    [texto_original |-> t, publicacao |-> "10/12/2024", numero_diario |-> "1.234",
     internet_path |-> UrlPdf, local_path |-> LocalPadrao,
     pdf_file |-> "diario.pdf", download_dir |-> DirPadrao]

\* the sample span of the end-to-end scenario
SecaoAmostra ==
    <<"ACÓRDÃO", " ", "Nº", " ", "46.073", " ", "Processo", " ", "nº", " ",
      "244012005", "-", "00", " ", "Assunto", ":", " ", "Recurso", " ", "de",
      " ", "Reconsideração", " ", "Município", ":", " ", "Castanhal">>

Cabeca(numero) == <<"ACÓRDÃO", " ", "Nº", " ", numero, " ">>

\* sections of an issue, each one ending with a space
SecoesRec ==
    { SecaoAmostra \o <<" ">>,
      <<"ACÓRDÃO", "\n", "Nº", " ", "46.074", " ", "Recurso", " ">>,
      Cabeca("46.074") \o <<"Numero", ":", " ", "Assunto", ":", " ", "Recurso", " ">>,
      Cabeca("46.074") \o <<"Advogado", ":", " ", "Fulano", " ", "CPF", ":", " ",
                            "123.456.789-10", " ", "Assunto", ":", " ", "Recurso", " ">>,
      Cabeca("46.073") \o <<"Interessado", ":", " ", "Fulano", " ", "CPF", ":", " ",
                            "123.456.789-10", " ">>,
      Cabeca("46.074") \o <<"Advogado", ":", " ", "Fulano", " ", "CPF", ":",
                            "123.456.789-10", " ">>,
      Cabeca("46.073") \o <<"Responsável", ":", " ", "Fulano", " ",
                            "123.456.789-10", " ">>,
      Cabeca("46.074") \o <<"Instrução", ":", " ", "2°", " ", "Controladoria", " ",
                            "foi", " ", "Sessão", " ", "Eletrônica", " ", "de", " ",
                            "12", " ", "de", " ", "março", " ", "de", " ", "2025", " ">>,
      Cabeca("46.073") \o <<"Categoria", ":", " ", "Recurso", " ", "Download", " ",
                            "Anexo", " ">> }

TextosRec == Textos(SecoesRec, MaxSecoes) \ {<<>>}

\* Acordao(diario): self.documentos = self._extract_data(diario=self.diario)
ExtractData ==
    /\ n_extract < MaxExtracoes
    /\ \E r \in {_extract_data(DiarioDoc(texto),
                                Stores(arquivos, indice, gravados, ultima))} :
           /\ secoes' = [feito |-> TRUE, tipo |-> "acordao", spans |-> r.sections]
           /\ documentos' = r.r.docs
           /\ arquivos' = r.r.st.arquivos
           /\ indice' = r.r.st.indice
           /\ gravados' = r.r.st.gravados
           /\ ultima' = r.r.st.ultima
    /\ n_extract' = n_extract + 1
    /\ UNCHANGED <<dateVars, pipeVars, texto, campos, auxVars>>

\* records handed to the stores
CategoriasDoc == {"acordao", "resolucao"}
NumerosDoc == {"46.073"}
SeriesDiario == {"1.234", "1.235"}
Formatos == {"json", "txt"}
SpansDoc == {<<"Recurso">>, <<"Prefeitura">>}

RegistroDe(categoria, numero, serie) ==
    [categoria |-> <<categoria>>, numero |-> <<numero>>, numero_diario |-> <<serie>>,
     sessao |-> <<>>, publicacao |-> <<"10/12/2024">>]

Grava(st) ==
    /\ arquivos' = st.arquivos
    /\ indice' = st.indice
    /\ gravados' = st.gravados
    /\ ultima' = st.ultima
    /\ UNCHANGED <<dateVars, pipeVars, docVars, auxVars>>

\* self._cache_entry(texto, diario, data, format)
CacheEntry ==
    /\ Cardinality(gravados) < MaxEscritas
    /\ \E categoria \in CategoriasDoc, numero \in NumerosDoc, serie \in SeriesDiario,
          download_dir \in Raizes, format \in Formatos, span \in SpansDoc :
            Grava(GravaCache(Stores(arquivos, indice, gravados, ultima), span,
                             download_dir, RegistroDe(categoria, numero, serie), format))

\* self._tokenize_and_store(texto, metadados, database)
TokenizeAndStore ==
    /\ Cardinality(gravados) < MaxEscritas
    /\ \E categoria \in CategoriasDoc, numero \in NumerosDoc, serie \in SeriesDiario,
          database \in CategoriasDoc, span \in SpansDoc :
            Grava(GravaIndice(Stores(arquivos, indice, gravados, ultima), span,
                              RegistroDe(categoria, numero, serie), database))

----------------------------------------------------------------------------
(* The known-keys vocabulary: utils/markdown_helper.py 242-403 *)

\* default_keys of _load_known_keys
default_keys ==
    {"processo nº", "natureza", "origem", "município", "interessada",
     "interessado", "responsável", "membro mpcm", "relatora", "relator",
     "ordenador", "assunto", "exercício", "ministério público", "embargante"}

\* re.sub(r"\s+", " ", text).strip() after the tab and space normalisation
RECURSIVE juntar_brancos(_)
juntar_brancos(t) ==
    IF t = <<>> THEN <<>>
    ELSE IF Head(t) \notin Brancos THEN <<Head(t)>> \o juntar_brancos(Tail(t))
    ELSE <<" ">> \o juntar_brancos(SubSeq(t, SaltaBrancos(t, 1), Len(t)))

single_line_text(raw_text) == strip(juntar_brancos(raw_text))

\* tokens made of [a-z...A-Z...0-9º\s] characters only
NoRotulo(tok) == tok \notin ({":", "-", "[REDIGIDO]"} \cup Pontuados \cup Cpfs)

\* key.lower() of a key of several tokens
minusculas(key) == Str([x \in DOMAIN key |-> lower(key[x])])

\* re.finditer(pattern, text): a capital letter, then label characters up to
\* the first colon, then the whitespace after it; the key is the match
\* without its trailing colon and blanks
RECURSIVE _extract_potential_keys(_, _)
_extract_potential_keys(t, i) ==
    IF i > Len(t) THEN <<>>
    ELSE IF /\ t[i] \in Maiusculas
            /\ \E j \in i + 1 .. Len(t) :
                 t[j] = ":" /\ \A x \in i .. j - 1 : NoRotulo(t[x])
    THEN LET j == Min({x \in i + 1 .. Len(t) : t[x] = ":"})
             fim == SaltaBrancos(t, j + 1)
         IN  <<[key |-> rstrip(SubSeq(t, i, j - 1)), start |-> i, end |-> fim]>>
                \o _extract_potential_keys(t, fim)
    ELSE _extract_potential_keys(t, i + 1)

\* excluded_regex.search(key): the key starts with CPF, OAB, CRC, PA, SSP, PC,
\* "Ato nº" or art, in any case
excluded_regex(key) == key[1] \in {"CPF", "PA", "PAUTA"}

\* _filter_and_validate_keys: the keys kept, the new keys met, the review flag
_filter_and_validate_keys(potential_keys, known_keys, new_keys_found) ==
    LET validas == SelectSeq(potential_keys, LAMBDA k : ~excluded_regex(k.key))
        novas == {minusculas(validas[x].key) : x \in DOMAIN validas} \ known_keys
    IN  [validated_keys |-> validas,
         needs_review |-> novas # {},
         new_keys_found |-> new_keys_found \cup novas]

\* _load_known_keys: the file's set, the defaults when the file is missing
\* (after writing them) or when anything raised
_load_known_keys(arquivo, falhou) ==
    IF falhou THEN [ret |-> default_keys, arquivo |-> arquivo]
    ELSE IF arquivo.existe THEN [ret |-> arquivo.chaves, arquivo |-> arquivo]
    ELSE [ret |-> default_keys,
          arquivo |-> [existe |-> TRUE, chaves |-> default_keys]]

\* the set written by _save_known_keys
ChavesGravadas(known_keys, new_keys_found) == known_keys \cup new_keys_found

\* _save_known_keys: nothing without new keys, the file unchanged when open raised
_save_known_keys(arquivo, known_keys, new_keys_found, falhou) ==
    IF new_keys_found = {} \/ falhou THEN arquivo
    ELSE [existe |-> TRUE, chaves |-> ChavesGravadas(known_keys, new_keys_found)]

Persistidas(v, arquivo) ==
    IF arquivo.existe THEN v.persistidas \cup arquivo.chaves ELSE v.persistidas

\* labelled fields: a default label, a new one, a new one with a capitalised
\* word before it, an excluded one
PecasVocab ==
    { <<"Município", ":", " ", "46.073", " ">>,
      <<"Instrução", ":", "\n", "46.074", " ">>,
      <<"Castanhal", "\n", "Instrução", ":", " ", "46.074", " ">>,
      <<"CPF", ":", " ", "46.073", " ">> }

TextosVocab == Textos(PecasVocab, MaxPecas)

\* self.known_keys = self._load_known_keys()
LoadKnownKeys ==
    \E p \in Processos, falhou \in BOOLEAN :
    \E r \in {_load_known_keys(vocabulario.arquivo, falhou)} :
        /\ vocabulario' =
             [vocabulario EXCEPT !.arquivo = r.arquivo,
                                 !.persistidas = Persistidas(vocabulario, r.arquivo),
                                 !.known_keys[p] = r.ret,
                                 !.carregou[p] = TRUE,
                                 !.needs_review = FALSE]
        /\ UNCHANGED <<dateVars, pipeVars, docVars, storeVars, chamada, extracao,
                       http, lote, limpeza, baixa>>

\* extractor.extract_key_value_pairs()
ExtractKeyValuePairs ==
    \E p \in Processos, raw_text \in TextosVocab, falhou \in BOOLEAN :
        /\ vocabulario.carregou[p]
        /\ \E f \in {_filter_and_validate_keys(
                        _extract_potential_keys(single_line_text(raw_text), 1),
                        vocabulario.known_keys[p],
                        vocabulario.new_keys_found[p])} :
           \E arq \in {IF f.needs_review
                       THEN _save_known_keys(vocabulario.arquivo,
                                             vocabulario.known_keys[p],
                                             f.new_keys_found, falhou)
                       ELSE vocabulario.arquivo} :
              vocabulario' =
                [vocabulario EXCEPT !.arquivo = arq,
                                    !.persistidas = Persistidas(vocabulario, arq),
                                    !.new_keys_found[p] = f.new_keys_found,
                                    !.needs_review = f.needs_review]
        /\ UNCHANGED <<dateVars, pipeVars, docVars, storeVars, chamada, extracao,
                       http, lote, limpeza, baixa>>

----------------------------------------------------------------------------
(* Specifications *)

\* DataDiario on its own
InitData == DateInit /\ PipeIdle /\ DocIdle /\ StoreIdle /\ AuxIdle

NextData == ConstructDataDiario

SpecData == InitData /\ [][NextData]_vars

Init == DateIdle /\ PipeInit /\ DocIdle /\ StoreIdle /\ AuxIdle

Next == Construct \/ ExtractText \/ PdfDisponivel

Spec == Init /\ [][Next]_vars

\* the query endpoints
InitApi ==
    /\ DateIdle /\ DocIdle /\ StoreIdle /\ AuxIdle
    /\ fs \in {FsCom(Ausente), FsCom(Arquivo(Pdf(<<"capa">>), TRUE))} /\ PipeRest

NextApi == Requisicao

SpecApi == InitApi /\ [][NextApi]_vars

\* the batch runs
InitLote ==
    /\ hoje = HojeLote /\ data_in = NoData /\ data_out = "none"
    /\ PipeIdle /\ DocIdle /\ StoreIdle /\ AuxIdle

NextLote == GetDiarioMonth \/ GetDiarioAno

SpecLote == InitLote /\ [][NextLote]_vars

\* two extractors sharing one known-keys file
InitVocab == DateIdle /\ PipeIdle /\ DocIdle /\ StoreIdle /\ AuxIdle

NextVocab == LoadKnownKeys \/ ExtractKeyValuePairs

SpecVocab == InitVocab /\ [][NextVocab]_vars

\* the normaliser applied to a text and to its own results
InitLimpa ==
    /\ DateIdle /\ PipeIdle /\ StoreIdle /\ AuxIdle
    /\ texto \in TextosLimpa /\ DocRest

NextLimpa == CleanText

SpecLimpa == InitLimpa /\ [][NextLimpa]_vars

\* constructions and downloads asked for by the caller
InitBaixa == DateIdle /\ PipeIdle /\ DocIdle /\ StoreIdle /\ AuxIdle

NextBaixa == Construct \/ DownloadPdf

SpecBaixa == InitBaixa /\ [][NextBaixa]_vars

\* the segmenters on their own
InitSeg ==
    /\ DateIdle /\ PipeIdle /\ StoreIdle /\ AuxIdle
    /\ texto \in TextosSeg /\ DocRest

NextSeg == GetSections \/ SplitSections

SpecSeg == InitSeg /\ [][NextSeg]_vars

\* key discovery and value extraction on their own
InitKV ==
    /\ DateIdle /\ PipeIdle /\ StoreIdle /\ AuxIdle
    /\ texto \in TextosKV /\ DocRest

NextKV == ExtractKeyContent

SpecKV == InitKV /\ [][NextKV]_vars

\* key discovery on labels of mixed case
InitCaixa ==
    /\ DateIdle /\ PipeIdle /\ StoreIdle /\ AuxIdle
    /\ texto \in TextosCaixa /\ DocRest

NextCaixa == ExtractKeyContent

SpecCaixa == InitCaixa /\ [][NextCaixa]_vars

\* the record builder on the sections of one issue
InitRec ==
    /\ DateIdle /\ PipeIdle /\ StoreIdle /\ AuxIdle
    /\ texto \in TextosRec /\ DocRest

NextRec == ExtractData

SpecRec == InitRec /\ [][NextRec]_vars

\* the stores on their own
InitDedup == DateIdle /\ PipeIdle /\ DocIdle /\ StoreIdle /\ AuxIdle

NextDedup == CacheEntry \/ TokenizeAndStore

SpecDedup == InitDedup /\ [][NextDedup]_vars

----------------------------------------------------------------------------
(* Claims *)

\* C1: every valid calendar date not after today constructs a DataDiario, and
\* every date strictly after today fails with the error for a future date
\* (DataFutura).
C1_DataFuturaRaised ==
    (data_out # "none" /\ data_in.forma # "nondigit"
        /\ DatetimeOk(data_in.ano, data_in.mes, data_in.dia))
    => IF DateAfter(data_in.ano, data_in.mes, data_in.dia, hoje)
       THEN data_out = "DataFutura"
       ELSE data_out = "ok"

\* C2: however often extract_text is called on one instance, the PDF is opened
\* at most once and every call returns the same text.
C2_ExtractOnce ==
    /\ opens <= 1
    /\ \A i, j \in 1 .. Len(returns) : returns[i] = returns[j]

\* C3: _pdf_disponivel never raises; it answers True exactly for a regular file
\* that can be read and has at least one byte, so a zero-byte file and an
\* unreadable file are both reported as not cached.
C3_IsCached ==
    disponivel.feito =>
        /\ disponivel.resposta \in {"True", "False"}
        /\ disponivel.resposta = "True" <=>
              /\ disponivel.arquivo.tipo = "arquivo"
              /\ disponivel.arquivo.legivel
              /\ disponivel.arquivo.conteudo # Bytes0

\* C3 witness: the check has run on a readable zero-byte file
C3_Witness ==
    /\ disponivel.feito
    /\ disponivel.arquivo = Arquivo(Bytes0, TRUE)
    /\ disponivel.resposta = "False"

\* C4: per cache root, once download_pdf has returned True no later
\* construction sends another request for the PDF, and at most one download
\* succeeds.
C4_AtMostOneDownload ==
    \A r \in Raizes : requests_after_ok[r] = 0 /\ downloads_ok[r] <= 1

\* C5: for a text with N occurrences of the opening marker the segmenter
\* returns exactly N spans; the i-th span begins at the i-th occurrence and
\* with the marker itself, is cut from the text there, and ends no later than
\* the next span begins.
C5_Segmentation ==
    secoes.feito =>
        LET r == secoes.spans
            palavra == IF secoes.tipo = "acordao" THEN "ACÓRDÃO" ELSE "RESOLUÇÃO"
            occ == IF secoes.tipo = "acordao"
                   THEN Ordenado({i \in 1 .. Len(texto) : MarcaLargaEm(texto, i, "ACÓRDÃO")})
                   ELSE Ordenado({i \in 1 .. Len(texto) : MarcaJustaEm(texto, i, "RESOLUÇÃO")})
        IN  /\ Len(r) = Len(occ)
            /\ \A i \in 1 .. Len(r) :
                /\ r[i].ini = occ[i]
                /\ r[i].ini < r[i].fim
                /\ r[i].texto # <<>>
                /\ r[i].texto[1] = palavra
                /\ strip(r[i].texto) = strip(Fatia(texto, r[i].ini, r[i].fim))
                /\ i < Len(r) => r[i].fim <= r[i + 1].ini

\* C5 witness: a text with two markers and a delimiter after the last one has
\* been segmented into two spans, the last one ending at the delimiter
C5_Witness ==
    /\ secoes.feito
    /\ Len(secoes.spans) = 2
    /\ secoes.spans[2].fim <= Len(texto)
    /\ \E d \in section_delimiters : find(texto, d, 1) > 0

\* C6: for a text of labelled fields every label becomes a key, no value holds
\* a label of the text, and when the labels are distinct each value is exactly
\* the content that follows its label, whatever whitespace follows the colons.
C6_Partition ==
    campos.feito =>
        LET occ == Ordenado({i \in 1 .. Len(texto) - 1 :
                                texto[i] \in RotulosKV /\ texto[i + 1] = ":"})
            v == campos.values
        IN  /\ \A k \in 1 .. Len(occ) : lower(texto[occ[k]]) \in DOMAIN v
            /\ \A f \in DOMAIN v : \A i \in 1 .. Len(v[f]) : v[f][i] \notin RotulosKV
            /\ Cardinality({texto[occ[k]] : k \in 1 .. Len(occ)}) = Len(occ) =>
                  \A k \in 1 .. Len(occ) :
                      /\ lower(texto[occ[k]]) \in DOMAIN v
                      /\ Str(v[lower(texto[occ[k]])]) = Str(ConteudoKV(texto[occ[k]]))

\* C7: a section without the identifying number yields no record, so that the
\* result holds one record per section with the number, and every record of
\* the result holds a numero that is not empty.
C7_NumeroObrigatorio ==
    n_extract > 0 =>
        /\ Len(documentos) =
              Cardinality({i \in 1 .. Len(secoes.spans) :
                              numero_match(secoes.spans[i].texto) # <<>>})
        /\ \A i \in 1 .. Len(documentos) :
              /\ "numero" \in DOMAIN documentos[i]
              /\ documentos[i]["numero"] # <<>>

\* C8: no field of a record holds a sequence of the CPF shape, the sample of
\* the section included, while the file of the record keeps the span as it
\* was cut.
C8_Redaction ==
    n_extract > 0 =>
        /\ \A i \in 1 .. Len(documentos) :
              \A f \in DOMAIN documentos[i] \ {"local", "sample_texto"} :
                  \A k \in 1 .. Len(documentos[i][f]) : documentos[i][f][k] \notin Cpfs
        /\ \A i \in 1 .. Len(documentos) :
              \A k \in 1 .. Len(documentos[i]["sample_texto"].inteiros) :
                  documentos[i]["sample_texto"].inteiros[k] \notin Cpfs
        /\ \A p \in DOMAIN arquivos :
              \E i \in 1 .. Len(secoes.spans) :
                  arquivos[p].conteudo.texto_original = secoes.spans[i].texto

C10_Amostra ==
    (n_extract > 0 /\ texto = SecaoAmostra \o <<" ">>) =>
        /\ Len(documentos) = 1
        /\ Str(documentos[1]["numero"]) = "46.073"
        /\ "processo" \in DOMAIN documentos[1]
        /\ Str(documentos[1]["processo"]) = "244012005-00"
        /\ "municipio" \in DOMAIN documentos[1]
        /\ Str(documentos[1]["municipio"]) = "Castanhal"

\* C11: a construction whose index-page request fails ends with an outcome
\* that differs from the outcome of the same construction when the page is
\* fetched but holds no container or no link.
C11_UpstreamDistinct ==
    (chamada.feita /\ chamada.idx = "req_error") =>
        \A idx \in {"no_div", "no_link"} :
            DiarioOficial(chamada.dt, chamada.dir, idx, Resposta(FALSE, Bytes0),
                          "ok", fs, hoje).ctor # ctor

\* C12: a request to /api/diario or /api/diario/download whose date is not a
\* calendar date or lies after today is answered with status 400, by the
\* FastAPI and by the Flask application.
C12_DataRecusada400 ==
    (/\ http.feita /\ http.forma # "nondigit"
     /\ \/ ~DatetimeOk(http.dt[3], http.dt[2], http.dt[1])
        \/ DateAfter(http.dt[3], http.dt[2], http.dt[1], hoje))
    => http.status = 400

\* C13: for a request to /api/diario/download with a valid date that is not
\* after today, the answer is 404 when the index page shows no issue for the
\* day and 404 when the issue is listed but no PDF file is at its local path
\* once the handler is done; 500 is left for other failures.
C13_Download404 ==
    (/\ http.feita /\ http.rota = "/api/diario/download" /\ http.forma # "nondigit"
     /\ DatetimeOk(http.dt[3], http.dt[2], http.dt[1])
     /\ ~DateAfter(http.dt[3], http.dt[2], http.dt[1], hoje))
    => /\ http.idx \in {"no_div", "no_link"} => http.status = 404
       /\ (http.idx = "link" /\ http.local.tipo # "arquivo") => http.status = 404

\* C14: in a month or year run, after a day on which no issue is found every
\* later day of that month is attempted as well.
C14_DiasSeguintes ==
    lote.feito =>
        \A t \in lote.tentados :
            t[2] \in lote.sem_edicao =>
                \A dia \in (t[2] + 1) .. DaysInMonth(lote.self.ano, t[1]) :
                    <<t[1], dia>> \in lote.tentados

\* C15: a file that holds part of a download is not a cache entry:
\* _pdf_disponivel does not answer True for it, and a construction that finds
\* it at the local path does not open it for extraction.
C15_ParcialNaoValido ==
    /\ (disponivel.feito /\ disponivel.arquivo.tipo = "arquivo"
            /\ disponivel.arquivo.conteudo = Parcial)
       => disponivel.resposta # "True"
    /\ (/\ chamada.feita /\ chamada.dir = "" /\ chamada.idx = "link"
        /\ chamada.achou = "parcial"
        /\ chamada.pediu = 0 /\ ctor = "ok")
       => opens = 0

\* C16: extract_text never raises; when opening or parsing the PDF fails it
\* returns the empty string, and the run goes on with empty text: the
\* construction completes and the segmenter finds no section in the text.
C16_ExtractTextNaoLevanta ==
    /\ extracao.feita =>
        /\ extracao.exc = ""
        /\ extracao.falhou => extracao.ret = <<>>
    /\ (extracao.feita /\ extracao.onde = "__init__" /\ extracao.falhou) =>
        /\ ctor = "ok"
        /\ diario.texto_original = <<>>
        /\ get_sections(diario.texto_original, diario.texto_original) = <<>>

\* a construction during which extract_text met an error
C16_Witness ==
    /\ extracao.feita /\ extracao.onde = "__init__" /\ extracao.falhou
    /\ extracao.leu.tipo = "arquivo" /\ ctor = "ok"

\* C17: a construction whose PDF request fails, or whose write of the PDF
\* fails, ends with a download failure: it does not complete, and it does not
\* end with an error that names something else.
C17_FalhaDeDownload ==
    (chamada.feita /\ chamada.pediu = 1
        /\ (~chamada.resp_ok \/ chamada.wr # "ok"))
    => ctor \notin {"ok", "NameError"}

\* C18: a construction whose date, as given, is not a calendar date or lies
\* after today is rejected and sends no request: not for the index page and
\* not for a PDF, of that date or of any other.
C18_RejeitaSemRede ==
    (/\ chamada.feita
     /\ \/ ~DatetimeOk(chamada.dt[3], chamada.dt[2], chamada.dt[1])
        \/ DateAfter(chamada.dt[3], chamada.dt[2], chamada.dt[1], hoje))
    => /\ ctor \notin {"ok", "none"}
       /\ chamada.consultou = 0
       /\ chamada.pediu = 0

\* C19: one construction sends at most one request for the index page and at
\* most one request for the PDF, whether they succeed or fail.
C19_SemNovaTentativa ==
    chamada.feita => (chamada.consultou <= 1 /\ chamada.pediu <= 1)

\* a construction whose index-page request failed, and one whose PDF request
\* failed, each having sent its request
C19_Witness ==
    /\ chamada.feita /\ chamada.consultou = 1
    /\ \/ chamada.idx = "req_error"
       \/ chamada.pediu = 1 /\ ~chamada.resp_ok

\* C20: after an extraction that read the pages of a PDF, numero_diario is
\* the match on the first page after page 0 that has a match, whatever the
\* pages after it hold.
C20_PrimeiroNumero ==
    (extracao.feita /\ ~extracao.falhou /\ extracao.leu.conteudo.tipo = "pdf") =>
        LET ps == extracao.leu.conteudo.paginas
            com_numero == {i \in 2 .. Len(ps) : obter_numero_diario(ps[i]) # ""}
        IN  com_numero # {} =>
                extracao.numero =
                    obter_numero_diario(ps[CHOOSE i \in com_numero :
                                                \A j \in com_numero : i <= j])

C23_SoAcrescenta ==
    vocabulario.arquivo.existe =>
        vocabulario.persistidas \subseteq vocabulario.arquivo.chaves

\* C24: clean_text applied to a result of clean_text returns it unchanged.
C24_Idempotente ==
    (limpeza.feito /\ limpeza.de_saida) => limpeza.ret = limpeza.text

\* C25: whenever the instance's local_path is set, the file it names is a
\* cache entry: _pdf_disponivel answers True for it.
C25_LocalPathEmCache ==
    diario.local_path # "" => pdf_disponivel(fs, diario.local_path) = "True"

\* C26: the record of a section holds the number of the section's opening
\* marker as numero and the act category as categoria, whatever the labels
\* found in the section.
C26_NumeroECategoria ==
    n_extract > 0 =>
        LET com == SelectSeq(secoes.spans,
                             LAMBDA sp : numero_match(sp.texto) # <<>>)
        IN  /\ Len(documentos) = Len(com)
            /\ \A i \in 1 .. Len(documentos) :
                  /\ documentos[i]["numero"] = numero_match(com[i].texto)
                  /\ documentos[i]["categoria"] = <<"acordao">>

\* C27: _extract_key_content returns one field for each key of its key list:
\* no two keys of the list share an output field.
C27_UmCampoPorChave ==
    campos.feito =>
        Cardinality(DOMAIN campos.values) = Cardinality(Range(campos.keys))

\* C28: every span that get_sections returned holds the number pattern of
\* _extract_data, so that each span yields a record.
C28_NenhumSpanDescartado ==
    n_extract > 0 =>
        /\ \A i \in 1 .. Len(secoes.spans) :
              numero_match(secoes.spans[i].texto) # <<>>
        /\ Len(documentos) = Len(secoes.spans)

\* C29: after download_pdf(internet_path, local_path=p) has returned True the
\* file at p holds the bytes of the response (the file at the instance's
\* local_path when p is omitted).
C29_GravaEmP ==
    (baixa.feita /\ baixa.ret = "True") =>
        baixa.em_p = Arquivo(baixa.corpo, TRUE)

\* C30: a month run that ends without an error has attempted every day of
\* the month, the last one included; a year run has attempted every day of
\* every month of the year that is not after the current month of the
\* current year.
C30_TodosOsDias ==
    (lote.feito /\ lote.exc = "") =>
        LET ano == lote.self.ano
            meses_do_ano == IF ano < hoje[1] THEN 1 .. 12 ELSE 1 .. hoje[2]
            dias(m) == {<<m, d>> : d \in 1 .. DaysInMonth(ano, m)}
        IN  IF lote.op = "get_diario_month"
            THEN lote.tentados = dias(lote.self.mes)
            ELSE lote.tentados = UNION {dias(m) : m \in meses_do_ano}

====
